---- MODULE Spec2Model ----
(***************************************************************************)
(* Model of the per-symbol trade simulator of scripts/validate_upgraded.py *)
(* (process_symbol_with_filters and the indicator functions it calls).     *)
(*                                                                         *)
(* Numbers.  The program computes in floating point; the model computes in *)
(* integers.  Prices, money and ATR values are integers in the unit of the *)
(* candle prices, a division rounds down (\div).  The smoothed indicators  *)
(* feed back into themselves, so they carry two more digits and round to   *)
(* the nearest: EMA values and the Wilder-smoothed TR/DM are in hundredths *)
(* of a price unit.  Fractions are kept as scaled integers: DI/DX/ADX in   *)
(* ten-thousandths of a point (25 is 250000), quality scores in thousandths*)
(* (0.4 is 400), max_dd in thousandths.  A comparison of the program       *)
(* between two quotients is made exactly, by cross-multiplication,         *)
(* wherever the operands allow it.                                         *)
(***************************************************************************)
EXTENDS Integers, Sequences, FiniteSets, TLC

\* ------------------------------------------------------------------------
\* Configuration (validate_upgraded.py:15-35)
\* ------------------------------------------------------------------------
INITIAL_CAPITAL == 500000
\* RISK_PER_TRADE = 0.003, in thousandths
RISK_PER_TRADE == 3
MAX_TRADES_PER_DAY == 2
\* MAX_DAILY_LOSS = 0.01, in hundredths
MAX_DAILY_LOSS == 1
\* KILL_SWITCH_DD = 0.05, in hundredths
KILL_SWITCH_DD == 5
KILL_SWITCH_DAYS == 5
\* MIN_FIRST_HOUR_RANGE_ATR = 0.3, in tenths
MIN_FIRST_HOUR_RANGE_ATR == 3
\* SLIPPAGE_PCT = 0.0005 = 1/2000: the divisor
SLIPPAGE_PCT == 2000
BROKERAGE == 20
\* STT = 0.00025 = 1/4000: the divisor
STT == 4000
EMA_FAST == 15
EMA_SLOW == 25
\* TRAILING_ATR_MULT = 2.0
TRAILING_ATR_MULT == 2

\* ------------------------------------------------------------------------
\* Arithmetic helpers (Python built-ins used by the program)
\* ------------------------------------------------------------------------
Abs(x) == IF x < 0 THEN -x ELSE x
Max2(a, b) == IF a >= b THEN a ELSE b
Min2(a, b) == IF a <= b THEN a ELSE b

RECURSIVE SumFrom(_, _, _)
\* sum(s[lo..hi]) (1-based, inclusive); 0 when the range is empty
SumFrom(s, lo, hi) == IF lo > hi THEN 0 ELSE s[hi] + SumFrom(s, lo, hi - 1)

RECURSIVE MaxHigh(_, _, _)
\* max(c['high'] for c in candles[lo..hi])
MaxHigh(candles, lo, hi) ==
    IF lo = hi THEN candles[lo].high
    ELSE Max2(candles[hi].high, MaxHigh(candles, lo, hi - 1))

RECURSIVE MinLow(_, _, _)
\* min(c['low'] for c in candles[lo..hi])
MinLow(candles, lo, hi) ==
    IF lo = hi THEN candles[lo].low
    ELSE Min2(candles[hi].low, MinLow(candles, lo, hi - 1))

Closes(candles) == [k \in 1..Len(candles) |-> candles[k].close]

\* a / b rounded to the nearest integer (b > 0)
DivRound(a, b) == (2 * a + b) \div (2 * b)

\* the quotient a / b in millionths, rounded down (a >= 0, b > 0), computed
\* in two steps of a thousand to stay inside 32 bits
Millionths(a, b) ==
    ((a * 1000) \div b) * 1000 + (((a * 1000) % b) * 1000) \div b

\* ------------------------------------------------------------------------
\* Indicator functions
\* ------------------------------------------------------------------------
RECURSIVE EmaFold(_, _, _, _, _)
\* the loop of calculate_ema over prices[k..n]:
\* ema = (price - ema) * multiplier + ema, multiplier = 2 / (period + 1);
\* ema is in hundredths of a price unit
EmaFold(prices, n, period, k, ema) ==
    IF k > n THEN ema
    ELSE EmaFold(prices, n, period, k + 1,
                 ema + DivRound((prices[k] * 100 - ema) * 2, period + 1))

\* calculate_ema(prices, period), in hundredths of a price unit; 0 is the
\* "unavailable" sentinel
calculate_ema(prices, period) ==
    IF Len(prices) < period THEN 0
    ELSE EmaFold(prices, Len(prices), period, period + 1,
                 DivRound(SumFrom(prices, 1, period) * 100, period))

\* true range of candles[k] against candles[k-1] (k >= 2)
TrueRange(candles, k) ==
    Max2(candles[k].high - candles[k].low,
         Max2(Abs(candles[k].high - candles[k - 1].close),
              Abs(candles[k].low - candles[k - 1].close)))

\* the list true_ranges of calculate_atr / calculate_adx
TrueRanges(candles) ==
    [k \in 1..(Len(candles) - 1) |-> TrueRange(candles, k + 1)]

\* calculate_atr(candles, period)
calculate_atr(candles, period) ==
    IF Len(candles) < 2 THEN 0
    ELSE LET tr == TrueRanges(candles)
             n  == Len(tr)
         IN  IF n < period THEN SumFrom(tr, 1, n) \div n
             ELSE SumFrom(tr, n - period + 1, n) \div period

RECURSIVE WilderFold(_, _, _, _, _)
\* the loop of wilder_smooth over values[k..n]
WilderFold(values, n, period, k, smoothed) ==
    IF k > n THEN smoothed
    ELSE WilderFold(values, n, period, k + 1,
             Append(smoothed,
                    DivRound(smoothed[Len(smoothed)] * (period - 1) + values[k],
                             period)))

\* wilder_smooth(values, period): the list of smoothed values
wilder_smooth(values, period) ==
    IF Len(values) < period THEN << >>
    ELSE WilderFold(values, Len(values), period, period + 1,
                    << DivRound(SumFrom(values, 1, period), period) >>)

\* +DM and -DM of candles[k] against candles[k-1] (k >= 2)
PlusDM(candles, k) ==
    LET up_move   == candles[k].high - candles[k - 1].high
        down_move == candles[k - 1].low - candles[k].low
    IN  IF up_move > down_move /\ up_move > 0 THEN up_move ELSE 0

MinusDM(candles, k) ==
    LET up_move   == candles[k].high - candles[k - 1].high
        down_move == candles[k - 1].low - candles[k].low
    IN  IF down_move > up_move /\ down_move > 0 THEN down_move ELSE 0

\* +DI / -DI: 100 * smooth_dm[k] / smooth_tr[k], 0 where smooth_tr[k] = 0
DirectionalIndex(smooth_dm, smooth_tr) ==
    [k \in 1..Len(smooth_tr) |->
        IF smooth_tr[k] = 0 THEN 0
        ELSE Millionths(smooth_dm[k], smooth_tr[k])]

\* DX: 100 * |+DI - -DI| / (+DI + -DI), 0 where the sum is 0
DirectionalMovement(plus_di, minus_di) ==
    [k \in 1..Len(plus_di) |->
        IF plus_di[k] + minus_di[k] = 0 THEN 0
        ELSE Millionths(Abs(plus_di[k] - minus_di[k]), plus_di[k] + minus_di[k])]

\* adx_values[-1] if adx_values else 0
LastOrZero(adx_values) ==
    IF Len(adx_values) > 0 THEN adx_values[Len(adx_values)] ELSE 0

\* the tail of calculate_adx from the DX list on
AdxOfDx(dx, period) ==
    IF Len(dx) < period THEN 0
    ELSE LastOrZero(wilder_smooth(dx, period))

\* the tail of calculate_adx from the smoothed lists on
AdxOfSmoothed(smooth_tr, smooth_plus_dm, smooth_minus_dm, period) ==
    AdxOfDx(DirectionalMovement(DirectionalIndex(smooth_plus_dm, smooth_tr),
                                DirectionalIndex(smooth_minus_dm, smooth_tr)),
            period)

\* calculate_adx(candles, period), in ten-thousandths of a point; the
\* true ranges and directional movements are smoothed in hundredths
calculate_adx(candles, period) ==
    IF Len(candles) < period + 1 THEN 0
    ELSE IF Len(candles) - 1 < period THEN 0
    ELSE AdxOfSmoothed(
           wilder_smooth([k \in 1..(Len(candles) - 1) |-> TrueRange(candles, k + 1) * 100], period),
           wilder_smooth([k \in 1..(Len(candles) - 1) |-> PlusDM(candles, k + 1) * 100], period),
           wilder_smooth([k \in 1..(Len(candles) - 1) |-> MinusDM(candles, k + 1) * 100], period),
           period)

\* seeded fault: the NORMAL regime given the quality threshold of TRENDING
RegimeOfAdxOneThreshold(adx) ==
    IF adx >= 250000
    THEN [regime |-> "TRENDING", adx |-> adx, should_trade |-> TRUE,
          min_ema_slope |-> 5, min_trade_score |-> 400,
          min_first_hour_atr |-> 300]
    ELSE IF adx >= 150000
    THEN [regime |-> "NORMAL", adx |-> adx, should_trade |-> TRUE,
          min_ema_slope |-> 2, min_trade_score |-> 400,
          min_first_hour_atr |-> 250]
    ELSE [regime |-> "CHOPPY", adx |-> adx, should_trade |-> FALSE,
          min_ema_slope |-> 0, min_trade_score |-> 0,
          min_first_hour_atr |-> 0]

\* seeded fault: the CHOPPY regime left tradable
RegimeOfAdxChoppyTrades(adx) ==
    IF adx >= 250000
    THEN [regime |-> "TRENDING", adx |-> adx, should_trade |-> TRUE,
          min_ema_slope |-> 5, min_trade_score |-> 400,
          min_first_hour_atr |-> 300]
    ELSE IF adx >= 150000
    THEN [regime |-> "NORMAL", adx |-> adx, should_trade |-> TRUE,
          min_ema_slope |-> 2, min_trade_score |-> 600,
          min_first_hour_atr |-> 250]
    ELSE [regime |-> "CHOPPY", adx |-> adx, should_trade |-> TRUE,
          min_ema_slope |-> 0, min_trade_score |-> 0,
          min_first_hour_atr |-> 0]

\* seeded fault: the slope thresholds of TRENDING and NORMAL exchanged
RegimeOfAdxSlopesSwapped(adx) ==
    IF adx >= 250000
    THEN [regime |-> "TRENDING", adx |-> adx, should_trade |-> TRUE,
          min_ema_slope |-> 2, min_trade_score |-> 400,
          min_first_hour_atr |-> 300]
    ELSE IF adx >= 150000
    THEN [regime |-> "NORMAL", adx |-> adx, should_trade |-> TRUE,
          min_ema_slope |-> 5, min_trade_score |-> 600,
          min_first_hour_atr |-> 250]
    ELSE [regime |-> "CHOPPY", adx |-> adx, should_trade |-> FALSE,
          min_ema_slope |-> 0, min_trade_score |-> 0,
          min_first_hour_atr |-> 0]

\* the regime thresholds of detect_regime applied to an ADX value
RegimeOfAdx(adx) ==
    IF adx >= 250000
    THEN [regime |-> "TRENDING", adx |-> adx, should_trade |-> TRUE,
          min_ema_slope |-> 5, min_trade_score |-> 400,
          min_first_hour_atr |-> 300]
    ELSE IF adx >= 150000
    THEN [regime |-> "NORMAL", adx |-> adx, should_trade |-> TRUE,
          min_ema_slope |-> 2, min_trade_score |-> 600,
          min_first_hour_atr |-> 250]
    ELSE [regime |-> "CHOPPY", adx |-> adx, should_trade |-> FALSE,
          min_ema_slope |-> 0, min_trade_score |-> 0,
          min_first_hour_atr |-> 0]

\* detect_regime(candles): the adaptive filter configuration
detect_regime(candles) == RegimeOfAdx(calculate_adx(candles, 14))

\* is_low_volatility_day(first_hour_candles, atr):
\* day_range < atr * MIN_FIRST_HOUR_RANGE_ATR, compared exactly
is_low_volatility_day(first_hour_candles, atr) ==
    IF Len(first_hour_candles) < 1 \/ atr <= 0 THEN FALSE
    ELSE LET day_high  == MaxHigh(first_hour_candles, 1, Len(first_hour_candles))
             day_low   == MinLow(first_hour_candles, 1, Len(first_hour_candles))
             day_range == day_high - day_low
         IN  day_range * 10 < atr * MIN_FIRST_HOUR_RANGE_ATR

\* is_trend_strong(candles, ema_period) with the threshold min_slope in
\* thousandths (the program compares with the global MIN_EMA_SLOPE = 0.0)
is_trend_strong(candles, ema_period, min_slope) ==
    IF Len(candles) < ema_period + 10 THEN FALSE
    ELSE LET closes      == Closes(candles)
             current_ema == calculate_ema(closes, ema_period)
             past_ema    == calculate_ema(SubSeq(closes, 1, Len(closes) - 10), ema_period)
         IN  IF past_ema = 0 THEN FALSE
             ELSE \* abs(slope) * 1000 >= min_slope, without the product by 1000
                  Abs(current_ema - past_ema) >= (min_slope * Abs(past_ema) + 999) \div 1000

\* has_entry_confirmation(candles, trend)
has_entry_confirmation(candles, trend) ==
    IF Len(candles) < 3
    THEN [confirmed |-> FALSE, pullback_high |-> 0, pullback_low |-> 0]
    ELSE LET prev_candle    == candles[Len(candles) - 1]
             current_candle == candles[Len(candles)]
         IN  [confirmed |-> IF trend = "UP"
                            THEN current_candle.close > prev_candle.high
                            ELSE current_candle.close < prev_candle.low,
              pullback_high |-> prev_candle.high,
              pullback_low  |-> prev_candle.low]

\* trend_strength = min(separation * 200, 1.0), in thousandths; the EMAs
\* are in hundredths of a price unit
TrendStrength(fast_ema, slow_ema) ==
    IF slow_ema > 0
    THEN IF Abs(fast_ema - slow_ema) * 200 >= slow_ema THEN 1000
         ELSE (Abs(fast_ema - slow_ema) * 2000) \div (slow_ema \div 100)
    ELSE 0

\* seeded fault: a window without range scored as a perfect pullback
PullbackScoreFlatIsPerfect(swing_high, swing_low, current) ==
    LET range_val == swing_high - swing_low
    IN  IF range_val > 0
        THEN LET pullback_from_high == ((swing_high - current) * 1000) \div range_val
                 pullback_from_low  == ((current - swing_low) * 1000) \div range_val
                 depth == Max2(pullback_from_high, pullback_from_low)
             IN  IF depth <= 500 THEN depth * 2
                 ELSE Max2(0, 1000 - (depth - 500) * 2)
        ELSE 1000

\* seeded fault: the depth taken as the smaller of the two retracements
PullbackDepthNearest(swing_high, swing_low, current) ==
    Min2(((swing_high - current) * 1000) \div (swing_high - swing_low),
         ((current - swing_low) * 1000) \div (swing_high - swing_low))

\* depth = max(pullback_from_high, pullback_from_low), in thousandths, for
\* a positive range (278-280)
PullbackDepth(swing_high, swing_low, current) ==
    Max2(((swing_high - current) * 1000) \div (swing_high - swing_low),
         ((current - swing_low) * 1000) \div (swing_high - swing_low))

\* pullback_score of calculate_trade_quality, in thousandths
PullbackScore(swing_high, swing_low, current) ==
    LET range_val == swing_high - swing_low
    IN  IF range_val > 0
        THEN LET depth == PullbackDepth(swing_high, swing_low, current)
             IN  IF depth <= 500 THEN depth * 2
                 ELSE Max2(0, 1000 - (depth - 500) * 2)
        ELSE 0

\* seeded fault: the volume score without its cap at 1.0
VolumeScoreUncapped(candles) ==
    LET n == Len(candles)
    IN  IF n >= 20
        THEN LET vol_sum == SumFrom([k \in 1..n |-> candles[k].volume], n - 19, n - 1)
                 current_volume == candles[n].volume
             IN  IF vol_sum > 0
                 THEN (current_volume * 19 * 1000) \div (vol_sum * 2)
                 ELSE 500
        ELSE 500

\* volume_score of calculate_trade_quality, in thousandths
VolumeScore(candles) ==
    LET n == Len(candles)
    IN  IF n >= 20
        THEN LET vol_sum == SumFrom([k \in 1..n |-> candles[k].volume], n - 19, n - 1)
                 current_volume == candles[n].volume
             IN  IF vol_sum > 0
                 THEN Min2((current_volume * 19 * 1000) \div (vol_sum * 2), 1000)
                 ELSE 500
        ELSE 500

\* calculate_trade_quality(candles), in thousandths
calculate_trade_quality(candles) ==
    IF Len(candles) < EMA_SLOW + 5 THEN 0
    ELSE LET closes   == Closes(candles)
             n        == Len(candles)
             fast_ema == calculate_ema(closes, EMA_FAST)
             slow_ema == calculate_ema(closes, EMA_SLOW)
             trend_strength == TrendStrength(fast_ema, slow_ema)
             swing_high == MaxHigh(candles, Max2(1, n - 9), n)
             swing_low  == MinLow(candles, Max2(1, n - 9), n)
             pullback_score == PullbackScore(swing_high, swing_low, closes[n])
             volume_score   == VolumeScore(candles)
         IN  (trend_strength * 4 + pullback_score * 4 + volume_score * 2) \div 10

\* detect_trend_and_pullback(candles)
detect_trend_and_pullback(candles) ==
    IF Len(candles) < EMA_SLOW + 5
    THEN [trend |-> "NEUTRAL", is_pullback |-> FALSE]
    ELSE LET closes   == Closes(candles)
             fast_ema == calculate_ema(closes, EMA_FAST)
             slow_ema == calculate_ema(closes, EMA_SLOW)
             current_close == closes[Len(closes)] * 100
             trend == IF fast_ema > slow_ema /\ current_close > slow_ema THEN "UP"
                      ELSE IF fast_ema < slow_ema /\ current_close < slow_ema THEN "DOWN"
                      ELSE "NEUTRAL"
         IN  [trend |-> trend,
              is_pullback |->
                 IF trend = "UP"
                 THEN current_close < fast_ema /\ current_close > slow_ema
                 ELSE IF trend = "DOWN"
                 THEN current_close > fast_ema /\ current_close < slow_ema
                 ELSE FALSE]

\* ------------------------------------------------------------------------
\* IEEE-754 double arithmetic, as Python's float operators compute it
\* ------------------------------------------------------------------------
\* Natural numbers of any size: the limbs of the number in base LimbBase,
\* least significant first, without leading zero limbs (0 is << >>).
LimbBits == 15
LimbBase == 2 ^ LimbBits
\* the significand of a double has 53 bits
MantissaBits == 53

Zeros(n) == [k \in 1..n |-> 0]

RECURSIVE BNorm(_)
\* the leading zero limbs removed
BNorm(a) ==
    IF Len(a) > 0 /\ a[Len(a)] = 0 THEN BNorm(SubSeq(a, 1, Len(a) - 1)) ELSE a

Limb(a, k) == IF k <= Len(a) THEN a[k] ELSE 0

RECURSIVE BAddFrom(_, _, _, _)
BAddFrom(a, b, k, carry) ==
    IF k > Len(a) /\ k > Len(b) THEN (IF carry = 0 THEN << >> ELSE << carry >>)
    ELSE << (Limb(a, k) + Limb(b, k) + carry) % LimbBase >>
         \o BAddFrom(a, b, k + 1, (Limb(a, k) + Limb(b, k) + carry) \div LimbBase)

\* a + b
BAdd(a, b) == BAddFrom(a, b, 1, 0)

RECURSIVE BSubFrom(_, _, _, _)
BSubFrom(a, b, k, borrow) ==
    IF k > Len(a) THEN << >>
    ELSE IF a[k] - Limb(b, k) - borrow < 0
         THEN << a[k] - Limb(b, k) - borrow + LimbBase >> \o BSubFrom(a, b, k + 1, 1)
         ELSE << a[k] - Limb(b, k) - borrow >> \o BSubFrom(a, b, k + 1, 0)

\* a - b (a >= b)
BSub(a, b) == BNorm(BSubFrom(a, b, 1, 0))

RECURSIVE BCmpFrom(_, _, _)
BCmpFrom(a, b, k) ==
    IF k = 0 THEN 0
    ELSE IF a[k] > b[k] THEN 1
    ELSE IF a[k] < b[k] THEN -1
    ELSE BCmpFrom(a, b, k - 1)

\* the sign of a - b
BCmp(a, b) ==
    IF Len(a) > Len(b) THEN 1
    ELSE IF Len(a) < Len(b) THEN -1
    ELSE BCmpFrom(a, b, Len(a))

RECURSIVE BMulSmallFrom(_, _, _, _)
BMulSmallFrom(a, c, k, carry) ==
    IF k > Len(a) THEN (IF carry = 0 THEN << >> ELSE << carry >>)
    ELSE << (a[k] * c + carry) % LimbBase >>
         \o BMulSmallFrom(a, c, k + 1, (a[k] * c + carry) \div LimbBase)

\* a * c (0 <= c < LimbBase)
BMulSmall(a, c) == IF c = 0 THEN << >> ELSE BMulSmallFrom(a, c, 1, 0)

\* a * LimbBase^n
ShiftLimbs(a, n) == IF Len(a) = 0 THEN << >> ELSE Zeros(n) \o a

RECURSIVE BMulFrom(_, _, _)
BMulFrom(a, b, k) ==
    IF k > Len(b) THEN << >>
    ELSE BAdd(ShiftLimbs(BMulSmall(a, b[k]), k - 1), BMulFrom(a, b, k + 1))

\* a * b
BMul(a, b) == BMulFrom(a, b, 1)

DivStep(rest, digit) == [q |-> Append(rest.q, digit), r |-> rest.r]

RECURSIVE BDivSmallFrom(_, _, _, _)
\* the limbs k..1 of a divided by d, the remainder of the limbs above
\* being rem
BDivSmallFrom(a, d, k, rem) ==
    IF k = 0 THEN [q |-> << >>, r |-> rem]
    ELSE DivStep(BDivSmallFrom(a, d, k - 1, (rem * LimbBase + a[k]) % d),
                 (rem * LimbBase + a[k]) \div d)

NormQ(x) == [q |-> BNorm(x.q), r |-> x.r]

\* quotient and remainder of a by d (0 < d < LimbBase)
BDivSmall(a, d) == NormQ(BDivSmallFrom(a, d, Len(a), 0))

RECURSIVE BitLen(_)
BitLen(n) == IF n = 0 THEN 0 ELSE 1 + BitLen(n \div 2)

\* the number of bits of a
BBitLen(a) == IF Len(a) = 0 THEN 0 ELSE LimbBits * (Len(a) - 1) + BitLen(a[Len(a)])

\* a * 2^k
BShl(a, k) == ShiftLimbs(BMulSmall(a, 2 ^ (k % LimbBits)), k \div LimbBits)

ShrResult(x, dropped) ==
    [q |-> x.q, sticky |-> x.r # 0 \/ \E n \in 1..Len(dropped) : dropped[n] # 0]

\* a \div 2^k, and whether a one was among the bits dropped
BShr(a, k) ==
    ShrResult(BDivSmall(SubSeq(a, k \div LimbBits + 1, Len(a)), 2 ^ (k % LimbBits)),
              SubSeq(a, 1, Min2(k \div LimbBits, Len(a))))

IsOdd(a) == Len(a) > 0 /\ a[1] % 2 = 1

\* A double is [s, m, e] with value s * m * 2^e: s is 1 or -1 and m has
\* exactly MantissaBits bits, or the double is 0.  (Subnormals, infinities
\* and NaN do not arise on the values computed here.)
FZero == [s |-> 0, m |-> << >>, e |-> 0]

\* q of MantissaBits or MantissaBits + 1 bits brought back to MantissaBits
Renorm(s, q, e) ==
    IF BBitLen(q) > MantissaBits
    THEN [s |-> s, m |-> BDivSmall(q, 2).q, e |-> e + 1]
    ELSE [s |-> s, m |-> q, e |-> e]

\* round to nearest, ties to even: x.q has MantissaBits + 1 bits, the last
\* being the guard bit
RoundGuarded(s, x, q, e) ==
    Renorm(s,
           IF IsOdd(x.q) /\ (x.sticky \/ IsOdd(q)) THEN BAdd(q, << 1 >>) ELSE q,
           e)

RoundShifted(s, x, e) == RoundGuarded(s, x, BDivSmall(x.q, 2).q, e + 1)

\* the double nearest to s * n * 2^e (n > 0)
RoundBits(s, n, bits, e) ==
    IF bits <= MantissaBits
    THEN [s |-> s, m |-> BShl(n, MantissaBits - bits), e |-> e - (MantissaBits - bits)]
    ELSE RoundShifted(s, BShr(n, bits - MantissaBits - 1), e + bits - MantissaBits - 1)

Round(s, n, e) == IF Len(n) = 0 THEN FZero ELSE RoundBits(s, n, BBitLen(n), e)

\* float(n) for an int n, |n| < LimbBase^2
FromInt(n) ==
    IF n = 0 THEN FZero
    ELSE Round(IF n < 0 THEN -1 ELSE 1,
               BNorm(<< Abs(n) % LimbBase, Abs(n) \div LimbBase >>), 0)

FNeg(a) == [a EXCEPT !.s = -a.s]
FAbs(a) == [a EXCEPT !.s = a.s * a.s]

\* the sum of two doubles laid out on the common exponent e
AddAligned(sa, ma, sb, mb, e) ==
    IF sa = sb THEN Round(sa, BAdd(ma, mb), e)
    ELSE IF BCmp(ma, mb) = 0 THEN FZero
    ELSE IF BCmp(ma, mb) > 0 THEN Round(sa, BSub(ma, mb), e)
    ELSE Round(sb, BSub(mb, ma), e)

\* a + b
FAdd(a, b) ==
    IF a.s = 0 THEN b
    ELSE IF b.s = 0 THEN a
    ELSE AddAligned(a.s, BShl(a.m, a.e - Min2(a.e, b.e)),
                    b.s, BShl(b.m, b.e - Min2(a.e, b.e)), Min2(a.e, b.e))

\* a - b
FSub(a, b) == FAdd(a, FNeg(b))

\* a * b
FMul(a, b) ==
    IF a.s = 0 \/ b.s = 0 THEN FZero
    ELSE Round(a.s * b.s, BMul(a.m, b.m), a.e + b.e)

\* the quotient x of the significand shifted by 2 limbs, with its remainder
\* folded into one more low bit
DivRounded(s, x, e) ==
    Round(s, BAdd(BMulSmall(x.q, 2), IF x.r # 0 THEN << 1 >> ELSE << >>), e)

\* a / d for an int d, 0 < d < LimbBase
FDivInt(a, d) ==
    IF a.s = 0 THEN FZero
    ELSE DivRounded(a.s, BDivSmall(ShiftLimbs(a.m, 2), d), a.e - 2 * LimbBits - 1)

\* a < b, a <= b
FLess(a, b) == FSub(a, b).s < 0
FMax(a, b) == IF FLess(a, b) THEN b ELSE a

\* the double a decimal with two places parses to: cents / 100
Decimal(cents) == FDivInt(FromInt(cents), 100)

\* ------------------------------------------------------------------------
\* The indicators on doubles (lines 43-77), prices given in hundredths
\* ------------------------------------------------------------------------
\* x is a double (a test that makes x be computed where it stands, as the
\* program computes each value before the next statement)
IsDouble(x) == x.s \in {-1, 0, 1}

RECURSIVE FSumFrom(_, _, _, _)
\* the builtin sum over xs[k..n] up to CPython 3.11: the terms are added to
\* acc one after the other
FSumFrom(xs, k, n, acc) ==
    IF IsDouble(acc) /\ k > n THEN acc ELSE FSumFrom(xs, k + 1, n, FAdd(acc, xs[k]))

\* the error of the addition t = a + x, as Neumaier's summation takes it
LostBits(a, x, t) ==
    IF FLess(FAbs(a), FAbs(x)) THEN FAdd(FSub(x, t), a) ELSE FAdd(FSub(a, t), x)

RECURSIVE FSumCompensatedFrom(_, _, _, _, _)
\* the builtin sum over xs[k..n] from CPython 3.12 on: the rounding errors
\* are collected in c and added at the end
FSumCompensatedFrom(xs, k, n, acc, c) ==
    IF IsDouble(acc) /\ IsDouble(c) /\ k > n THEN FAdd(acc, c)
    ELSE FSumCompensatedFrom(xs, k + 1, n, FAdd(acc, xs[k]),
                             FAdd(c, LostBits(acc, xs[k], FAdd(acc, xs[k]))))

\* sum(xs[lo..hi]) (1-based, inclusive) under either build of the interpreter
FSum(xs, lo, hi, compensated) ==
    IF compensated THEN FSumCompensatedFrom(xs, lo, hi, FZero, FZero)
    ELSE FSumFrom(xs, lo, hi, FZero)

RECURSIVE EmaLoop(_, _, _, _)
\* lines 51-52: ema = (price - ema) * multiplier + ema over prices[k..]
EmaLoop(prices, k, multiplier, ema) ==
    IF IsDouble(ema) /\ k > Len(prices) THEN ema
    ELSE EmaLoop(prices, k + 1, multiplier,
                 FAdd(FMul(FSub(prices[k], ema), multiplier), ema))

\* calculate_ema (43-54) on doubles
calculate_ema_double(prices, period, compensated) ==
    IF Len(prices) < period THEN FZero
    ELSE EmaLoop(prices, period + 1, FDivInt(FromInt(2), period + 1),
                 FDivInt(FSum(prices, 1, period, compensated), period))

RECURSIVE EmaLoopSwing(_, _, _, _)
\* validate_swing.py:24-25: ema = (p * k) + (ema * (1 - k)) over prices[n..]
EmaLoopSwing(prices, n, k, ema) ==
    IF IsDouble(ema) /\ n > Len(prices) THEN ema
    ELSE EmaLoopSwing(prices, n + 1, k,
                      FAdd(FMul(prices[n], k), FMul(ema, FSub(FromInt(1), k))))

\* calculate_ema of validate_swing.py (20-26), of validate_base_comparison.py
\* (19-25) and of compare_strategies_unified.py (18-23), on doubles: the
\* three have the same body
calculate_ema_swing(prices, period) ==
    IF Len(prices) = 0 \/ Len(prices) < period THEN FZero
    ELSE EmaLoopSwing(prices, 2, FDivInt(FromInt(2), period + 1), prices[1])

\* the true range of candle k (65-72)
TrueRangeDouble(candles, k) ==
    FMax(FSub(candles[k].high, candles[k].low),
         FMax(FAbs(FSub(candles[k].high, candles[k - 1].close)),
              FAbs(FSub(candles[k].low, candles[k - 1].close))))

TrueRangesDouble(candles) ==
    [k \in 1..(Len(candles) - 1) |-> TrueRangeDouble(candles, k + 1)]

\* lines 74-77 on the true ranges
AtrOfRanges(true_ranges, period, compensated) ==
    IF Len(true_ranges) < period
    THEN (IF Len(true_ranges) > 0
          THEN FDivInt(FSum(true_ranges, 1, Len(true_ranges), compensated),
                       Len(true_ranges))
          ELSE FZero)
    ELSE FDivInt(FSum(true_ranges, Len(true_ranges) - period + 1,
                      Len(true_ranges), compensated), period)

\* calculate_atr (56-77) on doubles
calculate_atr_double(candles, period, compensated) ==
    IF Len(candles) < 2 THEN FZero
    ELSE AtrOfRanges(TrueRangesDouble(candles), period, compensated)

\* ------------------------------------------------------------------------
\* Input: the day-partitioned candle series of one symbol (the JSON file
\* read at validate_upgraded.py:350-362).  A day is described by a list of
\* bars <<gap, delta, volume>>: open = previous close + gap, close = open +
\* delta, high/low = the body extended by a wick of 20; a fourth element,
\* where present, is the wick of that bar.
\* ------------------------------------------------------------------------
MaxDays == 8
MaxEvents == 1
\* the symbols main() simulates one after the other
MaxSymbols == 2

Rep(x, n) == [k \in 1..n |-> x]

RECURSIVE MkDay(_, _, _)
\* the candles of the bars shape[k..], the previous close being prev_close
MkDay(prev_close, shape, k) ==
    IF k > Len(shape) THEN << >>
    ELSE LET o == prev_close + shape[k][1]
             c == o + shape[k][2]
             wick == IF Len(shape[k]) > 3 THEN shape[k][4] ELSE 20
         IN  << [open |-> o, high |-> Max2(o, c) + wick, low |-> Min2(o, c) - wick,
                 close |-> c, volume |-> shape[k][3]] >>
             \o MkDay(c, shape, k + 1)

RallyBar == <<0, 100, 100>>
FlatBar  == <<0, 0, 100>>
FallBar  == <<0, -100, 100>>
\* 60 rising bars: the history the indicators need
WarmupDay == Rep(RallyBar, 60)
\* 10 rising bars, then 30 up-gap / down-gap pairs that go nowhere, then a
\* short slide: a history without direction
ChopWarmupDay == Rep(RallyBar, 10)
                 \o [k \in 1..60 |-> IF k % 2 = 1 THEN <<60, 5, 100>> ELSE <<-90, 30, 100>>]
                 \o Rep(<<0, -40, 100>>, 6)
\* a rising day with a dip into the EMA band and breakout bars on volume
TrendDay == Rep(RallyBar, 3) \o << <<-1100, 0, 100>> >> \o Rep(<<0, 100, 250>>, 2)
            \o Rep(RallyBar, 14)
\* the same opening, then a fall through the stops
StopDay == Rep(RallyBar, 3) \o << <<-1100, 0, 100>> >> \o Rep(<<0, 100, 250>>, 2)
           \o Rep(<<0, -200, 100>>, 4) \o Rep(RallyBar, 10)
\* the same opening, then a collapse inside the last 14 bars of the day
LateCrashDay == Rep(RallyBar, 3) \o << <<-1100, 0, 100>> >> \o Rep(<<0, 100, 250>>, 2)
                \o Rep(RallyBar, 9) \o << <<-70000, 0, 100>> >> \o Rep(FlatBar, 4)
\* a tight consolidation in the EMA band, a breakout, 42 quiet bars, then a
\* collapse of the given size followed by 15 flat bars
CrashDay(crash) == << <<-1100, 0, 100>> >> \o Rep(FlatBar, 8) \o Rep(<<0, 30, 300>>, 2)
                   \o Rep(<<0, 5, 100>>, 42) \o << <<crash, 0, 100>> >> \o Rep(FlatBar, 15)
\* the same day with 38 quiet bars: the collapse is the 40th bar after the
\* breakout bar
EdgeCrashDay == << <<-1100, 0, 100>> >> \o Rep(FlatBar, 8) \o Rep(<<0, 30, 300>>, 2)
                \o Rep(<<0, 5, 100>>, 38) \o << <<-7000, 0, 100>> >> \o Rep(FlatBar, 15)
\* a truncated day of 5 bars
ShortDay == Rep(RallyBar, 5)
\* the trend day with one falling bar after the stops have started to trail
DipDay == Rep(RallyBar, 3) \o << <<-1100, 0, 100>> >> \o Rep(<<0, 100, 250>>, 2)
          \o Rep(RallyBar, 6) \o << <<-60, -30, 100>> >> \o Rep(RallyBar, 7)
\* the mirror image: a long fall, a bounce into the EMA band, breakdown bars
\* on volume, and one rising bar after the stops have started to trail
DownDay == Rep(FallBar, 63) \o << <<1100, 0, 100>> >> \o Rep(<<0, -100, 250>>, 2)
           \o Rep(FallBar, 6) \o << <<60, 30, 100>> >> \o Rep(FallBar, 7)
\* a day on which the price never moves: every bar is a single print
DeadDay == Rep(<<0, 0, 100, 0>>, 22)
\* a first hour of four flat bars, then a steady rise
NarrowDay == Rep(FlatBar, 4) \o Rep(RallyBar, 16)
\* the trend day with a spike of 3000 either side of its third bar: the
\* swing low of the entry windows lies far below the entry
WideDay == Rep(RallyBar, 2) \o << <<0, 100, 100, 3000>> >> \o << <<-1100, 0, 100>> >>
           \o Rep(<<0, 100, 250>>, 2) \o Rep(RallyBar, 14)
\* the opening of the trend day, then 15 bars on which the price never moves
FadeDay == Rep(RallyBar, 3) \o << <<-1100, 0, 100>> >> \o Rep(<<0, 100, 250>>, 2)
           \o Rep(<<0, 0, 100, 0>>, 15)
\* the opening of the trend day with a spike of 1200 either side of its third
\* bar, then bars on which the price never moves and a close 2 lower: the
\* first trade is closed at a gain that just pays its costs
ScratchDay == Rep(RallyBar, 2) \o << <<0, 100, 100, 1200>> >> \o << <<-1100, 0, 100>> >>
              \o Rep(<<0, 100, 250>>, 2) \o Rep(<<0, 0, 100, 0>>, 13)
              \o << <<0, -2, 100, 0>> >>

\* the opening of the trend day, then a bar that opens 2000 lower, below the
\* initial stops of the longs just opened
GapDay == Rep(RallyBar, 3) \o << <<-1100, 0, 100>> >> \o Rep(<<0, 100, 250>>, 2)
          \o << <<-2000, 0, 100>> >> \o Rep(RallyBar, 13)
\* the opening of the trend day, then a bar reaching 300 either side: its
\* high puts the first long one risk ahead, its low is under the locked stop
WhipDay == Rep(RallyBar, 3) \o << <<-1100, 0, 100>> >> \o Rep(<<0, 100, 250>>, 2)
           \o << <<0, 100, 100, 300>> >> \o Rep(RallyBar, 13)
\* the pullback and the breakout of the trend day as the last three bars of
\* a day of 20
LateEntryDay == Rep(RallyBar, 17) \o << <<-1100, 0, 100>> >> \o Rep(<<0, 100, 250>>, 2)

\* the shapes the first event day is drawn from
Shapes == {TrendDay, StopDay, LateCrashDay, CrashDay(-70000), CrashDay(-7000), ShortDay,
           DipDay, DownDay, DeadDay, NarrowDay, EdgeCrashDay, WideDay, FadeDay,
           ScratchDay, GapDay, WhipDay,
           LateEntryDay}

\* the shapes a second or later event day is drawn from
LaterShapes == {TrendDay, StopDay, CrashDay(-7000), DownDay}

\* the days the series may hold at index d: a warm-up day, one day of any
\* shape, further event days up to MaxEvents, then trend days
ShapesAt(d) == IF d = 0 THEN {WarmupDay, ChopWarmupDay}
               ELSE IF d = 1 THEN Shapes
               ELSE IF d <= MaxEvents THEN LaterShapes ELSE {TrendDay}

\* the days the file of a later symbol holds: the warm-up day, then trend days
OtherShapesAt(d) == IF d = 0 THEN {WarmupDay} ELSE {TrendDay}

\* ------------------------------------------------------------------------
\* State of process_symbol_with_filters, called by main() for one symbol
\* after the other
\* ------------------------------------------------------------------------
VARIABLES
    symbol_idx,         \* the position of the symbol in main()'s sorted list
    all_candles,        \* the flattened series read so far
    day_indices,        \* <<start_idx, end_idx>> per day (0-based, end exclusive)
    pc,                 \* "start" | "none" (returned None) | "day" | "decide"
                        \* | "walk" | "close" | "done" (returned the record)
                        \* | "probe" (an indicator called on its own)
    day_idx, i, j,      \* the loop indices of the program (0-based)
    trades, wins, pnl, equity, peak, rolling_peak, max_dd,
    gross_profit, gross_loss,
    daily_returns,      \* the day keys of daily_returns
    daily_pnl, day_trades,
    volatility_skips, trend_gate_skips, entry_confirmation_skips,
    quality_score_skips, daily_loss_breaches, kill_switch_triggers,
    kill_switch_active, kill_switch_end_day,
    pos,                \* the locals of the trade being simulated
    trade_log,          \* history: one record per closed trade
    day_log,            \* history: one record per day started
    probe               \* an indicator function called on its own: its
                        \* arguments and, once applied, its result

series   == <<symbol_idx, all_candles, day_indices, probe>>
account  == <<trades, wins, pnl, equity, peak, max_dd, gross_profit, gross_loss,
              daily_returns>>
counters == <<volatility_skips, trend_gate_skips, entry_confirmation_skips,
              quality_score_skips, daily_loss_breaches>>
killsw   == <<kill_switch_active, kill_switch_end_day, kill_switch_triggers>>
daily    == <<daily_pnl, day_trades>>
vars == <<series, pc, day_idx, i, j, account, rolling_peak, counters, killsw,
          daily, pos, trade_log, day_log>>

NoPosition == [trend |-> "NONE"]

\* the locals of a call before its first day: the trackers as lines 357-391
\* initialise them, the locals assigned later not yet bound (0)
Locals0 ==
    /\ all_candles = << >>
    /\ day_indices = << >>
    /\ day_idx = 0 /\ i = 0 /\ j = 0
    /\ trades = 0 /\ wins = 0 /\ pnl = 0
    /\ equity = INITIAL_CAPITAL
    /\ peak = INITIAL_CAPITAL
    /\ rolling_peak = INITIAL_CAPITAL
    /\ max_dd = 0
    /\ gross_profit = 0 /\ gross_loss = 0
    /\ daily_returns = {}
    /\ daily_pnl = 0 /\ day_trades = 0
    /\ volatility_skips = 0 /\ trend_gate_skips = 0
    /\ entry_confirmation_skips = 0 /\ quality_score_skips = 0
    /\ daily_loss_breaches = 0 /\ kill_switch_triggers = 0
    /\ kill_switch_active = FALSE
    /\ kill_switch_end_day = 0
    /\ pos = NoPosition
    /\ trade_log = << >>
    /\ day_log = << >>

\* no indicator is called on its own
NoProbe == [fn |-> "none", prices |-> << >>, candles |-> << >>, period |-> 0,
            compensated |-> FALSE, out |-> << >>]

\* main() calls process_symbol_with_filters for the first symbol
Init ==
    /\ symbol_idx = 0
    /\ pc = "start"
    /\ probe = NoProbe
    /\ Locals0

\* the shapes the days of the symbol's file are drawn from
FileShapesAt(d) == IF symbol_idx = 0 THEN ShapesAt(d) ELSE OtherShapesAt(d)

\* the symbol has no data file: the call returns None (345-348)
FileNotFound ==
    /\ pc = "start"
    /\ pc' = "none"
    /\ UNCHANGED <<series, day_idx, i, j, account, rolling_peak, counters, killsw,
                   daily, pos, trade_log, day_log>>

\* seeded fault: equity and its peaks kept across calls, as module-level
\* state would be
ReadFileSharedEquity ==
    /\ pc = "start"
    /\ pc' = "day"
    /\ all_candles' = << >> /\ day_indices' = << >>
    /\ day_idx' = 0 /\ i' = 0 /\ j' = 0
    /\ trades' = 0 /\ wins' = 0 /\ pnl' = 0 /\ max_dd' = 0
    /\ gross_profit' = 0 /\ gross_loss' = 0 /\ daily_returns' = {}
    /\ pos' = NoPosition /\ trade_log' = << >> /\ day_log' = << >>
    /\ UNCHANGED <<symbol_idx, probe, equity, peak, rolling_peak, counters, killsw,
                   daily>>

\* the file is read and the trackers are initialised (350-391)
ReadFile ==
    /\ pc = "start"
    /\ pc' = "day"
    /\ all_candles' = << >> /\ day_indices' = << >>
    /\ day_idx' = 0 /\ i' = 0 /\ j' = 0
    /\ trades' = 0 /\ wins' = 0 /\ pnl' = 0
    /\ equity' = INITIAL_CAPITAL
    /\ peak' = INITIAL_CAPITAL
    /\ rolling_peak' = INITIAL_CAPITAL
    /\ max_dd' = 0
    /\ gross_profit' = 0 /\ gross_loss' = 0
    /\ daily_returns' = {}
    /\ daily_pnl' = 0 /\ day_trades' = 0
    /\ volatility_skips' = 0 /\ trend_gate_skips' = 0
    /\ entry_confirmation_skips' = 0 /\ quality_score_skips' = 0
    /\ daily_loss_breaches' = 0 /\ kill_switch_triggers' = 0
    /\ kill_switch_active' = FALSE
    /\ kill_switch_end_day' = 0
    /\ pos' = NoPosition /\ trade_log' = << >> /\ day_log' = << >>
    /\ UNCHANGED <<symbol_idx, probe>>

\* the candles of the day being processed (day_candles of the program)
DStart == day_indices[day_idx + 1][1]
DEnd   == day_indices[day_idx + 1][2]
day_candles == SubSeq(all_candles, DStart + 1, DEnd)
\* len(day_candles) and day_candles[k] (k 0-based)
DayLen == DEnd - DStart
DayCandle(k) == all_candles[DStart + k + 1]

\* the close a day starting at index d_start (0-based) is laid out from
PrevCloseAt(d_start) == IF d_start = 0 THEN 100000 ELSE all_candles[d_start].close

\* the close the next day is laid out from
PrevClose == PrevCloseAt(Len(all_candles))

\* the candles of a day of the given shape following the series read so far
NewDay(shape) == MkDay(PrevClose, shape, 1)

\* seeded fault: the threshold 5 read as a fraction instead of a percentage
KillSwitchHitAsFraction(rp, eq) ==
    IF rp > 0 THEN (rp - eq) >= KILL_SWITCH_DD * rp ELSE FALSE

\* rolling_dd >= KILL_SWITCH_DD with rolling_dd = (rolling_peak - equity) /
\* rolling_peak if rolling_peak > 0 else 0 (line 411-412), compared exactly
KillSwitchHit(rp, eq) ==
    IF rp > 0 THEN (rp - eq) * 100 >= KILL_SWITCH_DD * rp ELSE 0 >= KILL_SWITCH_DD

\* the volatility filter of a day (423-427): first_hour = day_candles[:4]
\* against the ATR of the whole day's candles
VolatilitySkipped(day) ==
    is_low_volatility_day(SubSeq(day, 1, Min2(4, Len(day))), calculate_atr(day, 14))

\* the day-level decision of lines 396-431 for a day of candles `day`
DayOutcome(day) ==
    IF Len(day) < 20 THEN "short"
    ELSE IF kill_switch_active /\ day_idx < kill_switch_end_day THEN "paused"
    ELSE IF KillSwitchHit(rolling_peak, equity) THEN "triggered"
    ELSE IF VolatilitySkipped(day) THEN "volatility"
    ELSE "open"

\* reading the next day of the series (lines 359-362, 393-394)
LoadDay(day, outcome) ==
    /\ UNCHANGED <<symbol_idx, probe>>
    /\ all_candles' = all_candles \o day
    /\ day_indices' = Append(day_indices,
                             <<Len(all_candles), Len(all_candles) + Len(day)>>)
    /\ day_log' = Append(day_log,
                         [day |-> day_idx, bars |-> Len(day), outcome |-> outcome,
                          rolling_peak |-> rolling_peak, equity |-> equity])

\* a day of fewer than 20 bars is skipped before anything else (396-397)
DayTooShort ==
    /\ pc = "day" /\ day_idx < MaxDays
    /\ \E shape \in FileShapesAt(day_idx) :
         LET day == NewDay(shape) IN
         /\ DayOutcome(day) = "short"
         /\ LoadDay(day, "short")
    /\ day_idx' = day_idx + 1
    /\ UNCHANGED <<pc, i, j, account, rolling_peak, counters, killsw, daily,
                   pos, trade_log>>

\* a day inside the kill-switch pause (404-406)
KillSwitchPause ==
    /\ pc = "day" /\ day_idx < MaxDays
    /\ \E shape \in FileShapesAt(day_idx) :
         LET day == NewDay(shape) IN
         /\ DayOutcome(day) = "paused"
         /\ LoadDay(day, "paused")
    /\ daily_pnl' = 0 /\ day_trades' = 0
    /\ day_idx' = day_idx + 1
    /\ UNCHANGED <<pc, i, j, account, rolling_peak, counters, killsw, pos, trade_log>>

\* seeded fault: the trigger restarts the rolling peak from the equity
KillSwitchTriggerResetsPeak ==
    /\ pc = "day" /\ day_idx < MaxDays
    /\ \E shape \in FileShapesAt(day_idx) :
         LET day == NewDay(shape) IN
         /\ DayOutcome(day) = "triggered"
         /\ LoadDay(day, "triggered")
    /\ daily_pnl' = 0 /\ day_trades' = 0
    /\ kill_switch_active' = TRUE
    /\ kill_switch_end_day' = day_idx + KILL_SWITCH_DAYS
    /\ kill_switch_triggers' = kill_switch_triggers + 1
    /\ rolling_peak' = equity
    /\ day_idx' = day_idx + 1
    /\ UNCHANGED <<pc, i, j, account, counters, pos, trade_log>>

\* the kill switch triggers on this day (407-417)
KillSwitchTrigger ==
    /\ pc = "day" /\ day_idx < MaxDays
    /\ \E shape \in FileShapesAt(day_idx) :
         LET day == NewDay(shape) IN
         /\ DayOutcome(day) = "triggered"
         /\ LoadDay(day, "triggered")
    /\ daily_pnl' = 0 /\ day_trades' = 0
    /\ kill_switch_active' = TRUE
    /\ kill_switch_end_day' = day_idx + KILL_SWITCH_DAYS
    /\ kill_switch_triggers' = kill_switch_triggers + 1
    /\ day_idx' = day_idx + 1
    /\ UNCHANGED <<pc, i, j, account, rolling_peak, counters, pos, trade_log>>

\* the day is skipped by the volatility filter (419-431)
VolatilitySkip ==
    /\ pc = "day" /\ day_idx < MaxDays
    /\ \E shape \in FileShapesAt(day_idx) :
         LET day == NewDay(shape) IN
         /\ DayOutcome(day) = "volatility"
         /\ LoadDay(day, "volatility")
    /\ daily_pnl' = 0 /\ day_trades' = 0
    /\ kill_switch_active' = FALSE
    /\ rolling_peak' = Max2(rolling_peak, equity)
    /\ volatility_skips' = volatility_skips + 1
    /\ day_idx' = day_idx + 1
    /\ UNCHANGED <<pc, i, j, account, trend_gate_skips, entry_confirmation_skips,
                   quality_score_skips, daily_loss_breaches, kill_switch_end_day,
                   kill_switch_triggers, pos, trade_log>>

\* the day passes the day-level checks: its candles are walked (393-434)
DayOpen ==
    /\ pc = "day" /\ day_idx < MaxDays
    /\ \E shape \in FileShapesAt(day_idx) :
         LET day == NewDay(shape) IN
         /\ DayOutcome(day) = "open"
         /\ LoadDay(day, "open")
    /\ daily_pnl' = 0 /\ day_trades' = 0
    /\ kill_switch_active' = FALSE
    /\ rolling_peak' = Max2(rolling_peak, equity)
    /\ pc' = "decide" /\ i' = 0
    /\ UNCHANGED <<day_idx, j, account, counters, kill_switch_end_day,
                   kill_switch_triggers, pos, trade_log>>

\* ------------------------------------------------------------------------
\* The candle loop of a day (lines 434-571)
\* ------------------------------------------------------------------------
\* g_idx = d_start + i and lookback = all_candles[g_idx - 60 : g_idx + 1]
GIdx == DStart + i
Lookback(g_idx) == SubSeq(all_candles, g_idx - 60 + 1, g_idx + 1)

\* seeded fault: the cap compared with > instead of >=
MaxTradesReachedLate(n) == n > MAX_TRADES_PER_DAY

\* day_trades >= MAX_TRADES_PER_DAY (436)
MaxTradesReached(n) == n >= MAX_TRADES_PER_DAY

\* seeded fault: the sign of the limit dropped, so that a loss never breaches
DailyLossBreachedUnsigned(dpnl, eq) == dpnl * 100 >= eq * MAX_DAILY_LOSS

\* daily_pnl <= -(equity * MAX_DAILY_LOSS) (440-441), compared exactly
DailyLossBreached(dpnl, eq) == dpnl * 100 <= -(eq * MAX_DAILY_LOSS)

\* seeded fault: a bar that opens beyond the stop fills at its open
StopFillAtGap(trend, trailing_stop, bar_open) ==
    IF trend = "UP" THEN Min2(trailing_stop, bar_open)
    ELSE Max2(trailing_stop, bar_open)

\* the fill the stop test of the exit walk gives, before slippage (533, 539)
StopFill(trend, trailing_stop, bar_open) ==
    IF trend = "UP" THEN Max2(trailing_stop, bar_open)
    ELSE Min2(trailing_stop, bar_open)

\* the entry computed at lines 485-514 from the lookback window, the
\* decision candle, the trend and the current equity
EntryPlan(lookback, last_candle, trend, eq) ==
    LET n           == Len(lookback)
        entry       == last_candle.close
        slip        == entry \div SLIPPAGE_PCT
        entry_price == IF trend = "UP" THEN entry + slip ELSE entry - slip
        atr         == calculate_atr(lookback, 14)
        swing_high  == MaxHigh(lookback, n - 9, n)
        swing_low   == MinLow(lookback, n - 9, n)
        stop        == IF trend = "UP" THEN swing_low - atr \div 2
                       ELSE swing_high + atr \div 2
        risk        == Abs(entry_price - stop)
        risk_amount == (eq * RISK_PER_TRADE) \div 1000
        cost_buffer == entry_price \div 1000
    IN  [trend |-> trend, entry_price |-> entry_price, slip |-> slip,
         atr |-> atr, stop |-> stop, risk |-> risk, risk_amount |-> risk_amount,
         qty |-> IF risk > 0 THEN (eq * RISK_PER_TRADE) \div (1000 * risk) ELSE 0,
         trail_dist |-> atr * TRAILING_ATR_MULT,
         be_level |-> IF trend = "UP" THEN entry_price + cost_buffer
                      ELSE entry_price - cost_buffer]

\* seeded fault: the position size is not tested
GateOfPlanAnyQuantity(plan) ==
    IF plan.risk <= 0 THEN "risk" ELSE "enter"

\* the gate chain of one decision point (446-504), short-circuit on the
\* first failing gate: which gate stops it, or "enter"
GateOfPlan(plan) ==
    IF plan.risk <= 0 THEN "risk"
    ELSE IF plan.qty <= 0 THEN "quantity"
    ELSE "enter"

\* seeded fault: the quality gate evaluated before the breakout confirmation
GateOfSignalQualityFirst(lookback, last_candle, regime_info, tp, eq) ==
    IF tp.trend = "NEUTRAL" \/ ~tp.is_pullback THEN "signal"
    ELSE IF tp.trend = "UP" /\ last_candle.close <= last_candle.open
    THEN "body"
    ELSE IF tp.trend = "DOWN" /\ last_candle.close >= last_candle.open
    THEN "body"
    ELSE IF calculate_trade_quality(lookback) < regime_info.min_trade_score
    THEN "quality"
    ELSE IF ~has_entry_confirmation(lookback, tp.trend).confirmed
    THEN "confirmation"
    ELSE GateOfPlan(EntryPlan(lookback, last_candle, tp.trend, eq))

\* the gates after trend and pullback detection (461-504)
GateOfSignal(lookback, last_candle, regime_info, tp, eq) ==
    IF tp.trend = "NEUTRAL" \/ ~tp.is_pullback THEN "signal"
    ELSE IF tp.trend = "UP" /\ last_candle.close <= last_candle.open
    THEN "body"
    ELSE IF tp.trend = "DOWN" /\ last_candle.close >= last_candle.open
    THEN "body"
    ELSE IF ~has_entry_confirmation(lookback, tp.trend).confirmed
    THEN "confirmation"
    ELSE IF calculate_trade_quality(lookback) < regime_info.min_trade_score
    THEN "quality"
    ELSE GateOfPlan(EntryPlan(lookback, last_candle, tp.trend, eq))

\* seeded fault: the trend gate applied after the regime, with the regime's
\* min_ema_slope as its threshold
GateOfRegimeTrendGated(lookback, last_candle, regime_info, eq) ==
    IF ~regime_info.should_trade THEN "choppy"
    ELSE IF ~is_trend_strong(lookback, EMA_SLOW, regime_info.min_ema_slope) THEN "trend"
    ELSE GateOfSignal(lookback, last_candle, regime_info,
                      detect_trend_and_pullback(lookback), eq)

\* the gates after regime detection (453-504)
GateOfRegime(lookback, last_candle, regime_info, eq) ==
    IF ~regime_info.should_trade THEN "choppy"
    ELSE GateOfSignal(lookback, last_candle, regime_info,
                      detect_trend_and_pullback(lookback), eq)

\* the gates on the 60-candle lookback window (451-504)
GateOfLookback(lookback, last_candle, eq) ==
    GateOfRegime(lookback, last_candle, detect_regime(lookback), eq)

GateOutcome(g_idx, last_candle, eq) ==
    IF g_idx < 60 THEN "history"
    ELSE GateOfLookback(Lookback(g_idx), last_candle, eq)

\* the gate outcome of the decision point the program is at
Gate == GateOutcome(GIdx, DayCandle(i), equity)

\* the position opened at the decision point the program is at
Plan ==
    LET lookback == Lookback(GIdx)
    IN  EntryPlan(lookback, DayCandle(i),
                  detect_trend_and_pullback(lookback).trend, equity)

\* seeded fault: the candle loop runs over the last bar of the day as well
NextCandleThroughLastBar ==
    IF i + 1 < DayLen
    THEN /\ pc' = "decide" /\ i' = i + 1 /\ day_idx' = day_idx
    ELSE /\ pc' = "day" /\ i' = i /\ day_idx' = day_idx + 1

\* the end of one iteration of `for i in range(len(day_candles) - 1)`:
\* the next candle of the day, or the next day
NextCandle ==
    IF i + 1 < DayLen - 1
    THEN /\ pc' = "decide" /\ i' = i + 1 /\ day_idx' = day_idx
    ELSE /\ pc' = "day" /\ i' = i /\ day_idx' = day_idx + 1

\* `break` out of the candle loop
NextDay == pc' = "day" /\ i' = i /\ day_idx' = day_idx + 1

\* max trades per day reached (436-437)
MaxTradesBreak ==
    /\ pc = "decide"
    /\ MaxTradesReached(day_trades)
    /\ NextDay
    /\ UNCHANGED <<series, j, account, rolling_peak, counters, killsw, daily,
                   pos, trade_log, day_log>>

\* daily loss limit reached (440-443)
DailyLossBreak ==
    /\ pc = "decide"
    /\ ~MaxTradesReached(day_trades)
    /\ DailyLossBreached(daily_pnl, equity)
    /\ daily_loss_breaches' = daily_loss_breaches + 1
    /\ NextDay
    /\ UNCHANGED <<series, j, account, rolling_peak, volatility_skips,
                   trend_gate_skips, entry_confirmation_skips, quality_score_skips,
                   killsw, daily, pos, trade_log, day_log>>

\* a gate that counts nothing stops the decision point (447, 453-454,
\* 461-462, 466-469, 496-497, 503-504)
SkipCandle(gate) ==
    /\ gate \in {"history", "choppy", "signal", "body", "risk", "quantity"}
    /\ NextCandle
    /\ UNCHANGED <<series, j, account, rolling_peak, counters, killsw, daily,
                   pos, trade_log, day_log>>

\* no breakout of the previous candle (472-475)
ConfirmationSkip(gate) ==
    /\ gate = "confirmation"
    /\ entry_confirmation_skips' = entry_confirmation_skips + 1
    /\ NextCandle
    /\ UNCHANGED <<series, j, account, rolling_peak, volatility_skips,
                   trend_gate_skips, quality_score_skips, daily_loss_breaches,
                   killsw, daily, pos, trade_log, day_log>>

\* quality score below the regime's threshold (478-481)
QualitySkip(gate) ==
    /\ gate = "quality"
    /\ quality_score_skips' = quality_score_skips + 1
    /\ NextCandle
    /\ UNCHANGED <<series, j, account, rolling_peak, volatility_skips,
                   trend_gate_skips, entry_confirmation_skips, daily_loss_breaches,
                   killsw, daily, pos, trade_log, day_log>>

\* range(i + 1, min(i + 40, len(day_candles))): the first index not walked
WalkEnd == Min2(i + 40, DayLen)

\* seeded fault: the default exit taken from the last bar of the walk window
DefaultExitBarOfWalk == WalkEnd - 1

\* the bar whose close is the exit when no stop is hit: day_candles[-1] (507)
DefaultExitBar == DayLen - 1

\* all gates pass: the trade is opened and its exit walk starts (484-516)
Enter(gate) ==
    /\ gate = "enter"
    /\ pos' = Plan @@
              [exit_price |-> DayCandle(DefaultExitBar).close,
               trailing_stop |-> Plan.stop, be_triggered |-> FALSE,
               entry_bar |-> i, exit_bar |-> DefaultExitBar,
               stopped |-> FALSE, fill |-> 0, bar_open |-> 0,
               equity_at_entry |-> equity, daily_pnl_at_entry |-> daily_pnl]
    /\ pc' = "walk" /\ j' = i + 1
    /\ UNCHANGED <<series, day_idx, i, account, rolling_peak, counters, killsw,
                   daily, trade_log, day_log>>

DecideWith(gate) ==
    \/ SkipCandle(gate)
    \/ ConfirmationSkip(gate)
    \/ QualitySkip(gate)
    \/ Enter(gate)

\* one decision point: the gate chain is run once and its outcome applied
\* (446-516)
Decide ==
    /\ pc = "decide"
    /\ ~MaxTradesReached(day_trades)
    /\ ~DailyLossBreached(daily_pnl, equity)
    /\ DecideWith(Gate)

\* ------------------------------------------------------------------------
\* The exit walk (516-540)
\* ------------------------------------------------------------------------
\* seeded fault: the break-even lock leaves the stop where it was
BreakEvenStopKept(trend, trailing_stop, be_level) == trailing_stop

\* the stop after the break-even lock has fired (523-526)
BreakEvenStop(trend, trailing_stop, be_level) ==
    IF trend = "UP" THEN Max2(trailing_stop, be_level)
    ELSE Min2(trailing_stop, be_level)

\* seeded fault: the stop follows the candle instead of ratcheting
TrailStopFollows(trend, trailing_stop, extreme, trail_dist) ==
    IF trend = "UP" THEN extreme - trail_dist ELSE extreme + trail_dist

\* the trailing ratchet on a candle whose high (long) or low (short) is
\* `extreme` (530, 536)
TrailStop(trend, trailing_stop, extreme, trail_dist) ==
    IF trend = "UP" THEN Max2(trailing_stop, extreme - trail_dist)
    ELSE Min2(trailing_stop, extreme + trail_dist)

\* seeded fault: the stop test is made against the stop as the previous bar
\* left it, before the lock and the ratchet of this bar
WalkStepStopFirst(p, c) ==
    LET be_now == /\ ~p.be_triggered
                  /\ IF p.trend = "UP" THEN c.high - p.entry_price >= p.risk
                     ELSE p.entry_price - c.low >= p.risk
        ts1 == IF be_now
               THEN BreakEvenStop(p.trend, p.trailing_stop, p.be_level)
               ELSE p.trailing_stop
        ts2 == IF p.trend = "UP"
               THEN IF c.high > p.entry_price + p.trail_dist
                    THEN TrailStop(p.trend, ts1, c.high, p.trail_dist) ELSE ts1
               ELSE IF c.low < p.entry_price - p.trail_dist
                    THEN TrailStop(p.trend, ts1, c.low, p.trail_dist) ELSE ts1
        hit == IF p.trend = "UP" THEN c.low <= p.trailing_stop
               ELSE c.high >= p.trailing_stop
        fill == StopFill(p.trend, ts2, c.open)
    IN  [p EXCEPT !.be_triggered = p.be_triggered \/ be_now,
                  !.trailing_stop = ts2,
                  !.stopped = hit,
                  !.fill = IF hit THEN fill ELSE p.fill,
                  !.bar_open = IF hit THEN c.open ELSE p.bar_open,
                  !.exit_price = IF hit
                                 THEN IF p.trend = "UP" THEN fill - p.slip
                                      ELSE fill + p.slip
                                 ELSE p.exit_price]

\* one candle c of the walk applied to the position p: break-even lock,
\* trailing ratchet, then the stop test
WalkStep(p, c) ==
    LET be_now == /\ ~p.be_triggered
                  /\ IF p.trend = "UP" THEN c.high - p.entry_price >= p.risk
                     ELSE p.entry_price - c.low >= p.risk
        ts1 == IF be_now
               THEN BreakEvenStop(p.trend, p.trailing_stop, p.be_level)
               ELSE p.trailing_stop
        ts2 == IF p.trend = "UP"
               THEN IF c.high > p.entry_price + p.trail_dist
                    THEN TrailStop(p.trend, ts1, c.high, p.trail_dist) ELSE ts1
               ELSE IF c.low < p.entry_price - p.trail_dist
                    THEN TrailStop(p.trend, ts1, c.low, p.trail_dist) ELSE ts1
        hit == IF p.trend = "UP" THEN c.low <= ts2 ELSE c.high >= ts2
        fill == StopFill(p.trend, ts2, c.open)
    IN  [p EXCEPT !.be_triggered = p.be_triggered \/ be_now,
                  !.trailing_stop = ts2,
                  !.stopped = hit,
                  !.fill = IF hit THEN fill ELSE p.fill,
                  !.bar_open = IF hit THEN c.open ELSE p.bar_open,
                  !.exit_price = IF hit
                                 THEN IF p.trend = "UP" THEN fill - p.slip
                                      ELSE fill + p.slip
                                 ELSE p.exit_price]

\* the walked candle hits the stop: the trade exits on it (532-534, 538-540)
WalkExit ==
    /\ pc = "walk"
    /\ LET p == WalkStep(pos, DayCandle(j)) IN
         /\ p.stopped
         /\ pos' = [p EXCEPT !.exit_bar = j]
    /\ pc' = "close"
    /\ UNCHANGED <<series, day_idx, i, j, account, rolling_peak, counters, killsw,
                   daily, trade_log, day_log>>

\* the walked candle does not hit the stop: the next candle of the window,
\* or the end of the window with the exit at the day's last close (507)
WalkOn ==
    /\ pc = "walk"
    /\ LET p == WalkStep(pos, DayCandle(j)) IN
         /\ ~p.stopped
         /\ pos' = p
    /\ IF j + 1 < WalkEnd THEN pc' = "walk" /\ j' = j + 1
       ELSE pc' = "close" /\ j' = j
    /\ UNCHANGED <<series, day_idx, i, account, rolling_peak, counters, killsw,
                   daily, trade_log, day_log>>

\* ------------------------------------------------------------------------
\* Trade closure (542-571)
\* ------------------------------------------------------------------------
\* net pnl of the closed position p: gross pnl minus brokerage and STT on
\* the sell-side turnover (543-547)
NetPnl(p) ==
    LET trade_pnl  == IF p.trend = "UP" THEN (p.exit_price - p.entry_price) * p.qty
                      ELSE (p.entry_price - p.exit_price) * p.qty
        sell_value == IF p.trend = "UP" THEN p.exit_price * p.qty
                      ELSE p.entry_price * p.qty
        costs      == BROKERAGE * 2 + sell_value \div STT
    IN  trade_pnl - costs

\* seeded fault: equity credited before the fixed brokerage
NewEquityBeforeBrokerage(eq, net) == eq + net + BROKERAGE * 2

\* equity += net (557)
NewEquity(eq, net) == eq + net

\* seeded fault: the peak is never advanced
NewPeakStale(pk, eq) == pk

\* seeded fault: a trade that only pays its costs counted as a win
IsWinNonNegative(net) == net >= 0

\* the test of line 565: if net > 0
IsWin(net) == net > 0

\* peak after a closure at equity eq (559-560)
NewPeak(pk, eq) == IF eq > pk THEN eq ELSE pk

\* dd = (peak - equity) / peak, in thousandths (561)
Drawdown(pk, eq) ==
    ((pk - eq) \div pk) * 1000 + (((pk - eq) % pk) * 1000) \div pk

CloseTrade ==
    /\ pc = "close"
    /\ LET net == NetPnl(pos)
           eq  == NewEquity(equity, net)
           pk  == NewPeak(peak, eq)
           dd  == Drawdown(pk, eq)
       IN  /\ trades' = trades + 1
           /\ day_trades' = day_trades + 1
           /\ pnl' = pnl + net
           /\ daily_pnl' = daily_pnl + net
           /\ equity' = eq
           /\ peak' = pk
           /\ max_dd' = IF dd > max_dd THEN dd ELSE max_dd
           /\ wins' = IF IsWin(net) THEN wins + 1 ELSE wins
           /\ gross_profit' = IF IsWin(net) THEN gross_profit + net ELSE gross_profit
           /\ gross_loss' = IF IsWin(net) THEN gross_loss ELSE gross_loss + Abs(net)
           /\ daily_returns' = daily_returns \cup {day_idx}
           /\ trade_log' = Append(trade_log,
                                  pos @@ [day |-> day_idx, g_idx |-> GIdx,
                                          net |-> net, dd |-> dd,
                                          equity_after |-> eq,
                                          daily_pnl_after |-> daily_pnl + net])
    /\ pos' = NoPosition
    /\ NextCandle
    /\ UNCHANGED <<series, j, rolling_peak, counters, killsw, day_log>>

\* the series has no further day: the loop over the days ends and the
\* record is returned (393, 573-603)
Finish ==
    /\ pc = "day"
    /\ pc' = "done"
    /\ UNCHANGED <<series, day_idx, i, j, account, rolling_peak, counters, killsw,
                   daily, pos, trade_log, day_log>>

\* main() goes on to the next symbol of its list
NextSymbol ==
    /\ pc \in {"done", "none"}
    /\ symbol_idx + 1 < MaxSymbols
    /\ symbol_idx' = symbol_idx + 1
    /\ pc' = "start"
    /\ UNCHANGED <<all_candles, day_indices, probe, day_idx, i, j, account,
                   rolling_peak, counters, killsw, daily, pos, trade_log, day_log>>

Next ==
    \/ FileNotFound \/ ReadFile \/ NextSymbol
    \/ DayTooShort \/ KillSwitchPause \/ KillSwitchTrigger \/ VolatilitySkip
    \/ DayOpen
    \/ MaxTradesBreak \/ DailyLossBreak \/ Decide
    \/ WalkExit \/ WalkOn \/ CloseTrade
    \/ Finish

Spec == Init /\ [][Next]_vars

\* ------------------------------------------------------------------------
\* The indicator functions called on their own, on doubles
\* ------------------------------------------------------------------------
\* the longest list of prices passed: the window of 60 candles (446-448)
MaxProbeLen == 60

\* prices, in hundredths: two-decimal quotes of the data files, and whole
\* numbers
ProbePrices == {10000, 10010, 10, 9995, 84704, 245635}

\* the rise of the price from one bar to the next, in hundredths: none (a
\* constant list) or one unit
ProbeSlopes == {0, 100}

\* n prices from p on
PriceList(p, slope, n) == [k \in 1..n |-> p + slope * (k - 1)]

\* the calls of calculate_ema ("ema": validate_upgraded.py, "ema_swing": the
\* other scripts) on lists of closes
EmaCalls(fn) ==
    {[fn |-> fn, prices |-> PriceList(ps[1], ps[2], n), candles |-> << >>,
      period |-> period, compensated |-> c, out |-> << >>] :
        ps \in ProbePrices \X ProbeSlopes, period \in {EMA_FAST, EMA_SLOW},
        n \in {EMA_FAST - 1, EMA_FAST, EMA_FAST + 1, EMA_SLOW, MaxProbeLen},
        c \in BOOLEAN}

EmaProbes == EmaCalls("ema") \cup EmaCalls("ema_swing")

\* <<low, high - low>> of the candles calculate_atr is called on, in
\* hundredths
ProbeRanges == {<<10000, 200>>, <<39694, 4584>>, <<11903, 3853>>, <<245635, 1285>>}

\* n candles of one range, each closing in the middle of it
RangeCandles(low, range, n) ==
    [k \in 1..n |-> [high |-> low + range, low |-> low,
                     close |-> low + range \div 2]]

\* the default period of calculate_atr (line 56)
ATR_PERIOD == 14

AtrProbes ==
    {[fn |-> "atr", prices |-> << >>, candles |-> RangeCandles(lr[1], lr[2], n),
      period |-> ATR_PERIOD, compensated |-> c, out |-> << >>] :
        lr \in ProbeRanges, n \in {0, 1, 2, 5, ATR_PERIOD + 1, 20}, c \in BOOLEAN}

\* the interpreter is about to call one of the two functions; compensated
\* tells which builtin sum it has
FloatInit ==
    /\ symbol_idx = 0
    /\ pc = "probe"
    /\ probe \in EmaProbes \cup AtrProbes
    /\ Locals0

\* the candles as json.load gives them: each price the double nearest to
\* its decimal
ParsedCandles(candles) ==
    [k \in 1..Len(candles) |-> [high |-> Decimal(candles[k].high),
                                low |-> Decimal(candles[k].low),
                                close |-> Decimal(candles[k].close)]]

ParsedPrices(prices) == [k \in 1..Len(prices) |-> Decimal(prices[k])]

\* calculate_ema(prices, period) is called and returns (43-54)
ApplyEma ==
    /\ pc = "probe" /\ probe.fn = "ema" /\ probe.out = << >>
    /\ probe' = [probe EXCEPT !.out =
                    << calculate_ema_double(ParsedPrices(probe.prices), probe.period,
                                            probe.compensated) >>]
    /\ UNCHANGED <<symbol_idx, all_candles, day_indices, pc, day_idx, i, j, account,
                   rolling_peak, counters, killsw, daily, pos, trade_log, day_log>>

\* calculate_ema(prices, period) of validate_swing.py is called and returns
ApplyEmaSwing ==
    /\ pc = "probe" /\ probe.fn = "ema_swing" /\ probe.out = << >>
    /\ probe' = [probe EXCEPT !.out =
                    << calculate_ema_swing(ParsedPrices(probe.prices), probe.period) >>]
    /\ UNCHANGED <<symbol_idx, all_candles, day_indices, pc, day_idx, i, j, account,
                   rolling_peak, counters, killsw, daily, pos, trade_log, day_log>>

\* calculate_atr(candles, period) is called and returns (56-77)
ApplyAtr ==
    /\ pc = "probe" /\ probe.fn = "atr" /\ probe.out = << >>
    /\ probe' = [probe EXCEPT !.out =
                    << calculate_atr_double(ParsedCandles(probe.candles), probe.period,
                                            probe.compensated) >>]
    /\ UNCHANGED <<symbol_idx, all_candles, day_indices, pc, day_idx, i, j, account,
                   rolling_peak, counters, killsw, daily, pos, trade_log, day_log>>

FloatNext == ApplyEma \/ ApplyEmaSwing \/ ApplyAtr

FloatSpec == FloatInit /\ [][FloatNext]_vars

\* ------------------------------------------------------------------------
\* validate_swing.py: process_symbol_swing on daily bars
\* ------------------------------------------------------------------------
\* RISK_PER_TRADE = 0.01 = 1/100, STT = 0.001 = 1/1000 and SLIPPAGE_PCT =
\* 0.002 = 1/500: the divisors; TRAILING_ATR_MULT = 2.5, in tenths
SWING_RISK_PER_TRADE == 100
SWING_STT == 1000
SWING_SLIPPAGE_PCT == 500
SWING_EMA_FAST == 20
SWING_EMA_SLOW == 50
SWING_TRAILING_ATR_MULT == 25

RECURSIVE EmaLoopSwingFixed(_, _, _, _)
\* for p in prices[n..]: ema = (p * k) + (ema * (1 - k)) with k = 2 /
\* (period + 1), in hundredths
EmaLoopSwingFixed(prices, n, period, ema) ==
    IF ema \in Int /\ n > Len(prices) THEN ema
    ELSE EmaLoopSwingFixed(prices, n + 1, period,
                           DivRound(2 * prices[n] * 100 + ema * (period - 1), period + 1))

\* calculate_ema(prices, period) of validate_swing.py, in hundredths
calculate_ema_swing_fixed(prices, period) ==
    IF Len(prices) = 0 \/ Len(prices) < period THEN 0
    ELSE EmaLoopSwingFixed(prices, 2, period, prices[1] * 100)

\* calculate_atr(candles, period) of validate_swing.py: the mean of all the
\* true ranges of the window
calculate_atr_swing(candles, period) ==
    IF Len(candles) < period + 1 THEN 0
    ELSE SumFrom(TrueRanges(candles), 1, Len(candles) - 1) \div (Len(candles) - 1)

\* candles[k] (k 0-based) and len(candles)
SwingCandle(k) == all_candles[k + 1]
SwingLen == Len(all_candles)

\* lookback = candles[i-EMA_SLOW:i+1] and its two EMAs
SwingLookback == SubSeq(all_candles, i - SWING_EMA_SLOW + 1, i + 1)
SwingFastEma == calculate_ema_swing_fixed(Closes(SwingLookback), SWING_EMA_FAST)
SwingSlowEma == calculate_ema_swing_fixed(Closes(SwingLookback), SWING_EMA_SLOW)

\* the branch of the trend check taken for the bar
SwingTrend(fast_ema, slow_ema, close) ==
    IF fast_ema > slow_ema /\ close * 100 > fast_ema THEN "UP"
    ELSE IF fast_ema < slow_ema /\ close * 100 < fast_ema THEN "DOWN"
    ELSE "NONE"

\* seeded fault: the short branch opens a position
SwingOpensBothSides(trend_signal, fast_ema) ==
    \/ trend_signal = "UP" /\ MinLow(all_candles, i - 2, i) * 100 < fast_ema
    \/ trend_signal = "DOWN"

\* the bar opens a position: an up trend whose low of the last 3 bars
\* dipped under the fast EMA; `pass` in the short branch
SwingOpens(trend_signal, fast_ema) ==
    trend_signal = "UP" /\ MinLow(all_candles, i - 2, i) * 100 < fast_ema

\* the locals assigned when a bar opens a position
SwingEntry(trend_signal, close, atr, eq) ==
    LET entry_price == close + close \div SWING_SLIPPAGE_PCT
        stop_loss   == entry_price - atr * 2
        risk        == entry_price - stop_loss
    IN  [trend |-> trend_signal, entry_price |-> entry_price, stop_loss |-> stop_loss,
         qty |-> IF risk > 0 THEN (eq \div SWING_RISK_PER_TRADE) \div risk ELSE 0,
         entry_bar |-> i]

SwingPlan ==
    SwingEntry(SwingTrend(SwingFastEma, SwingSlowEma, SwingCandle(i).close),
               SwingCandle(i).close,
               calculate_atr_swing(SwingLookback, ATR_PERIOD), equity)

\* the stop after the trailing ratchet of the bar, the ATR taken over
\* candles[i-14:i+1]
SwingTrailedStop(p, c, atr) ==
    IF c.high > p.entry_price + (atr * SWING_TRAILING_ATR_MULT) \div 10
    THEN Max2(p.stop_loss, c.high - (atr * SWING_TRAILING_ATR_MULT) \div 10)
    ELSE p.stop_loss

SwingStop ==
    SwingTrailedStop(pos, SwingCandle(i),
                     calculate_atr_swing(SubSeq(all_candles, i - 14 + 1, i + 1), ATR_PERIOD))

\* the position is managed as a long and its bar trades through the stop
SwingStopHit == pos.trend = "UP" /\ SwingCandle(i).low <= SwingStop

\* net of the closed trade: net_pnl - costs
SwingNet(entry_price, exit_price, qty) ==
    (exit_price - entry_price) * qty - ((entry_price + exit_price) * qty) \div SWING_STT

\* the locals before the loop
SwingFlat == [in_position |-> FALSE, trend |-> "", entry_price |-> 0, stop_loss |-> 0,
              qty |-> 0, entry_bar |-> 0]

\* the next iteration of `for i in range(EMA_SLOW + 5, len(candles))`, or
\* the return
SwingAdvance ==
    IF i + 1 < SwingLen THEN pc' = "swing_bar" /\ i' = i + 1
    ELSE pc' = "done" /\ i' = i

\* the file holds no candles: None is returned
SwingNoCandles ==
    /\ pc = "swing_start" /\ SwingLen = 0
    /\ pc' = "none"
    /\ UNCHANGED <<series, day_idx, i, j, account, rolling_peak, counters, killsw,
                   daily, pos, trade_log, day_log>>

\* the trackers are initialised and the loop starts at EMA_SLOW + 5
SwingStart ==
    /\ pc = "swing_start" /\ SwingLen > 0
    /\ trades' = 0 /\ wins' = 0 /\ pnl' = 0 /\ gross_profit' = 0 /\ gross_loss' = 0
    /\ equity' = INITIAL_CAPITAL
    /\ pos' = SwingFlat
    /\ i' = SWING_EMA_SLOW + 5
    /\ pc' = IF SWING_EMA_SLOW + 5 < SwingLen THEN "swing_bar" ELSE "done"
    /\ UNCHANGED <<series, day_idx, j, peak, max_dd, daily_returns, rolling_peak,
                   counters, killsw, daily, trade_log, day_log>>

\* not in position, and neither branch of the trend check is taken or the
\* long branch finds no dip
SwingNoSignal ==
    /\ pc = "swing_bar" /\ ~pos.in_position
    /\ SwingPlan.trend # "DOWN"
    /\ ~SwingOpens(SwingPlan.trend, SwingFastEma)
    /\ SwingAdvance
    /\ UNCHANGED <<series, day_idx, j, account, rolling_peak, counters, killsw,
                   daily, pos, trade_log, day_log>>

\* not in position, down trend: the short branch
SwingShortSignal ==
    /\ pc = "swing_bar" /\ ~pos.in_position
    /\ SwingPlan.trend = "DOWN"
    /\ ~SwingOpens(SwingPlan.trend, SwingFastEma)
    /\ SwingAdvance
    /\ UNCHANGED <<series, day_idx, j, account, rolling_peak, counters, killsw,
                   daily, pos, trade_log, day_log>>

\* the bar opens a position with a positive quantity
SwingEnter ==
    /\ pc = "swing_bar" /\ ~pos.in_position
    /\ SwingOpens(SwingPlan.trend, SwingFastEma)
    /\ SwingPlan.qty > 0
    /\ pos' = [in_position |-> TRUE] @@ SwingPlan
    /\ SwingAdvance
    /\ UNCHANGED <<series, day_idx, j, account, rolling_peak, counters, killsw,
                   daily, trade_log, day_log>>

\* the quantity is 0: in_position is set back to False
SwingNoQuantity ==
    /\ pc = "swing_bar" /\ ~pos.in_position
    /\ SwingOpens(SwingPlan.trend, SwingFastEma)
    /\ SwingPlan.qty <= 0
    /\ pos' = [in_position |-> FALSE] @@ SwingPlan
    /\ SwingAdvance
    /\ UNCHANGED <<series, day_idx, j, account, rolling_peak, counters, killsw,
                   daily, trade_log, day_log>>

\* in position, the stop is not hit: the stop trails
SwingHold ==
    /\ pc = "swing_bar" /\ pos.in_position
    /\ ~SwingStopHit
    /\ pos' = IF pos.trend = "UP" THEN [pos EXCEPT !.stop_loss = SwingStop] ELSE pos
    /\ SwingAdvance
    /\ UNCHANGED <<series, day_idx, j, account, rolling_peak, counters, killsw,
                   daily, trade_log, day_log>>

\* in position, the bar's low reaches the stop: the trade is closed at
\* min(stop_loss, open)
SwingExit ==
    /\ pc = "swing_bar" /\ pos.in_position
    /\ SwingStopHit
    /\ LET exit_price == Min2(SwingStop, SwingCandle(i).open)
           net == SwingNet(pos.entry_price, exit_price, pos.qty)
       IN  /\ trades' = trades + 1
           /\ pnl' = pnl + net
           /\ equity' = equity + net
           /\ wins' = IF net > 0 THEN wins + 1 ELSE wins
           /\ gross_profit' = IF net > 0 THEN gross_profit + net ELSE gross_profit
           /\ gross_loss' = IF net > 0 THEN gross_loss ELSE gross_loss + Abs(net)
           /\ pos' = [pos EXCEPT !.in_position = FALSE, !.stop_loss = SwingStop]
           /\ trade_log' = Append(trade_log,
                                  [trend |-> pos.trend, entry_bar |-> pos.entry_bar,
                                   exit_bar |-> i, entry_price |-> pos.entry_price,
                                   exit_price |-> exit_price, qty |-> pos.qty,
                                   net |-> net])
    /\ SwingAdvance
    /\ UNCHANGED <<series, day_idx, j, peak, max_dd, daily_returns, rolling_peak,
                   counters, killsw, daily, day_log>>

SwingNext ==
    \/ SwingNoCandles \/ SwingStart \/ SwingNoSignal \/ SwingShortSignal
    \/ SwingEnter \/ SwingNoQuantity \/ SwingHold \/ SwingExit

\* the daily bars of the files: a rally of 54 bars, then dips of d a bar
\* and a bounce above the fast EMA, followed by a rally and a fall, a rally
\* to the last bar, nothing, a second dip, or a fall at once; bars 3000 wide; a
\* file too short for the loop; a file without candles
SwingDips == {400, 500, 600}
SwingDip(d) == Rep(<<0, -d, 100>>, 3) \o << <<0, 2 * d - 100, 100>> >>
SwingShapes ==
    UNION {{Rep(RallyBar, 54) \o SwingDip(d) \o Rep(RallyBar, 12)
              \o Rep(<<0, -700, 100>>, 4) \o Rep(RallyBar, 8),
            Rep(RallyBar, 54) \o SwingDip(d) \o Rep(RallyBar, 10),
            Rep(RallyBar, 54) \o SwingDip(d),
            Rep(RallyBar, 54) \o SwingDip(d) \o Rep(RallyBar, 12) \o SwingDip(d)
              \o Rep(RallyBar, 8),
            Rep(RallyBar, 54) \o SwingDip(d) \o Rep(<<0, -700, 100>>, 3)
              \o Rep(RallyBar, 4)} : d \in SwingDips}
    \cup {Rep(<<0, 100, 100, 3000>>, 62), Rep(RallyBar, 40), << >>}

\* process_symbol_swing is called on one of the files
SwingInit ==
    /\ symbol_idx = 0
    /\ pc = "swing_start"
    /\ probe = NoProbe
    /\ all_candles \in {MkDay(100000, shape, 1) : shape \in SwingShapes}
    /\ day_indices = << >>
    /\ day_idx = 0 /\ i = 0 /\ j = 0
    /\ trades = 0 /\ wins = 0 /\ pnl = 0
    /\ equity = INITIAL_CAPITAL
    /\ peak = INITIAL_CAPITAL
    /\ rolling_peak = INITIAL_CAPITAL
    /\ max_dd = 0
    /\ gross_profit = 0 /\ gross_loss = 0
    /\ daily_returns = {}
    /\ daily_pnl = 0 /\ day_trades = 0
    /\ volatility_skips = 0 /\ trend_gate_skips = 0
    /\ entry_confirmation_skips = 0 /\ quality_score_skips = 0
    /\ daily_loss_breaches = 0 /\ kill_switch_triggers = 0
    /\ kill_switch_active = FALSE
    /\ kill_switch_end_day = 0
    /\ pos = SwingFlat
    /\ trade_log = << >>
    /\ day_log = << >>

SwingSpec == SwingInit /\ [][SwingNext]_vars

\* ------------------------------------------------------------------------
\* Properties
\* ------------------------------------------------------------------------
TradeIdx == 1..Len(trade_log)
DayIdx   == 1..Len(day_log)

\* a position is being simulated
PositionOpen == pos.trend # "NONE"

\* the trades closed on day d
TradesOn(d) == {t \in TradeIdx : trade_log[t].day = d}

RECURSIVE SumNet(_, _)
\* the sum of the net pnl of the first n closed trades
SumNet(log, n) == IF n = 0 THEN 0 ELSE log[n].net + SumNet(log, n - 1)

\* C1: in every reachable state the accumulated net pnl equals equity minus
\* INITIAL_CAPITAL, and it is the sum of the net pnl of the closed trades.
C1_PnlIsEquityGain ==
    /\ pnl = equity - INITIAL_CAPITAL
    /\ pnl = SumNet(trade_log, Len(trade_log))

\* C1 case: several trades closed, winners and losers among them
C1_Witness ==
    /\ Len(trade_log) >= 3
    /\ \E t \in TradeIdx : trade_log[t].net > 0
    /\ \E t \in TradeIdx : trade_log[t].net < 0
    /\ pnl # 0

\* the rolling drawdown at the start of the logged day k is at or above
\* KILL_SWITCH_DD: (rolling_peak - equity) / rolling_peak >= 5 / 100
DrawdownAtStart(k) ==
    /\ day_log[k].rolling_peak > 0
    /\ (day_log[k].rolling_peak - day_log[k].equity) * 100
          >= KILL_SWITCH_DD * day_log[k].rolling_peak

\* the days [D, D + KILL_SWITCH_DAYS) of the logged day k
PauseWindow(k) == day_log[k].day .. (day_log[k].day + KILL_SWITCH_DAYS - 1)

\* C2: if at the start of day D the rolling drawdown is >= KILL_SWITCH_DD,
\* no trade is opened on any day with index in [D, D + KILL_SWITCH_DAYS).
C2_NoTradeInPauseWindow ==
    \A k \in DayIdx :
        DrawdownAtStart(k) =>
            /\ \A t \in TradeIdx : trade_log[t].day \notin PauseWindow(k)
            /\ PositionOpen => day_idx \notin PauseWindow(k)

\* C2 case: trades were closed, the drawdown then reached the threshold at
\* the start of a day D, and the days D .. D + KILL_SWITCH_DAYS - 1 have all
\* been read
C2_Witness ==
    \E k \in DayIdx :
        /\ DrawdownAtStart(k)
        /\ day_log[k].outcome = "triggered"
        /\ \E t \in TradeIdx : trade_log[t].day < day_log[k].day
        /\ day_idx >= day_log[k].day + KILL_SWITCH_DAYS

\* C3: the kill switch is temporary: after a trigger on day D, the first day
\* of index >= D + KILL_SWITCH_DAYS with at least 20 bars is processed normally
\* (it reaches the volatility check) instead of being skipped by the switch.
C3_KillSwitchIsTemporary ==
    \A k \in DayIdx : \A m \in DayIdx :
        ( /\ day_log[k].outcome = "triggered"
          /\ day_log[m].day >= day_log[k].day + KILL_SWITCH_DAYS
          /\ day_log[m].bars >= 20
          /\ \A n \in DayIdx :
                (day_log[n].day >= day_log[k].day + KILL_SWITCH_DAYS
                   /\ day_log[n].bars >= 20) => day_log[n].day >= day_log[m].day )
        => day_log[m].outcome \in {"volatility", "open"}

\* C4: no position is entered at a bar inside the [entry bar, exit bar]
\* interval of another trade: a later trade of a day enters after the exit
\* bar of every earlier trade of that day.
C4_OnePositionAtATime ==
    \A a \in TradeIdx : \A b \in TradeIdx :
        (a < b /\ trade_log[a].day = trade_log[b].day)
            => trade_log[b].entry_bar > trade_log[a].exit_bar

\* the trades opened on the day being processed: closed ones and the open one
OpenedToday == Cardinality(TradesOn(day_idx)) + (IF PositionOpen THEN 1 ELSE 0)

\* C5: the trades opened on a day never exceed MAX_TRADES_PER_DAY, and the
\* per-day counter starts from 0 on each day: while a day is processed it
\* counts exactly the trades closed on that day.
C5_MaxTradesPerDay ==
    /\ \A k \in DayIdx : Cardinality(TradesOn(day_log[k].day)) <= MAX_TRADES_PER_DAY
    /\ pc \in {"decide", "walk", "close"} =>
          /\ day_trades = Cardinality(TradesOn(day_idx))
          /\ OpenedToday <= MAX_TRADES_PER_DAY
    /\ (pc = "decide" /\ i = 0) => day_trades = 0

\* C5 case: the cap stopped a day after MAX_TRADES_PER_DAY trades, and a later
\* day, counted from 0 again, reached the cap too
C5_Witness ==
    /\ pc = "decide"
    /\ day_trades = MAX_TRADES_PER_DAY
    /\ \E k \in DayIdx :
          /\ day_log[k].day < day_idx
          /\ Cardinality(TradesOn(day_log[k].day)) = MAX_TRADES_PER_DAY

\* after the closure of trade t the day's realized pnl is at or below
\* -(equity * MAX_DAILY_LOSS)
BreachedAfter(t) ==
    trade_log[t].daily_pnl_after * 100
        <= -(trade_log[t].equity_after * MAX_DAILY_LOSS)

\* C6: once the realized net pnl of a day is <= -(equity * MAX_DAILY_LOSS),
\* no further position is opened on that day: no trade of a day, closed or
\* open, follows a closure that left the day in breach.
C6_DailyLossBreaker ==
    /\ \A a \in TradeIdx : \A b \in TradeIdx :
          (a < b /\ trade_log[a].day = trade_log[b].day) => ~BreachedAfter(a)
    /\ PositionOpen => \A a \in TradesOn(day_idx) : ~BreachedAfter(a)

\* C6 case: the first trade of a day left the day in breach, the breaker
\* fired with the trade cap not yet reached, and the day ended with that
\* single trade
C6_Witness ==
    /\ daily_loss_breaches > 0
    /\ \E t \in TradeIdx :
          /\ BreachedAfter(t)
          /\ TradesOn(trade_log[t].day) = {t}
          /\ day_idx > trade_log[t].day

\* the candles a and b agree on the bars 0 .. n
AgreeUpTo(a, b, n) ==
    /\ Len(a) > n /\ Len(b) > n
    /\ \A k \in 1..(n + 1) : a[k] = b[k]

\* a day of the given shape in place of the day being processed
AlternativeDay(shape) == MkDay(PrevCloseAt(DStart), shape, 1)

\* C7: no future leakage: two series identical on all bars up to g take the
\* same decision at bar g.  A position entered at bar g of a day is therefore
\* entered for every day that agrees with it on the bars up to g: no such day
\* is skipped as too short or by the volatility filter.
C7_NoFutureLeakage ==
    PositionOpen =>
        \A shape \in FileShapesAt(day_idx) :
            AgreeUpTo(day_candles, AlternativeDay(shape), pos.entry_bar)
                => /\ Len(AlternativeDay(shape)) >= 20
                   /\ ~VolatilitySkipped(AlternativeDay(shape))

\* C8: on a stop-triggered exit the fill before slippage is the worst of the
\* stop and the exit bar's open: for a long at most both, for a short at least
\* both.
C8_StopFillIsWorstOf ==
    \A t \in TradeIdx :
        trade_log[t].stopped =>
            IF trade_log[t].trend = "UP"
            THEN /\ trade_log[t].fill <= trade_log[t].trailing_stop
                 /\ trade_log[t].fill <= trade_log[t].bar_open
            ELSE /\ trade_log[t].fill >= trade_log[t].trailing_stop
                 /\ trade_log[t].fill >= trade_log[t].bar_open

\* C9: max_drawdown, a fraction of peak equity, never exceeds 1 (1000
\* thousandths).
C9_MaxDrawdownAtMostOne == max_dd <= 1000

\* C10: max_drawdown is never negative and never decreases: peak >= equity
\* after every closure, every drawdown sample is >= 0, and max_drawdown is the
\* running maximum of the samples (0 before the first).
C10_MaxDrawdownRunningMax ==
    /\ max_dd >= 0
    /\ peak >= equity
    /\ \A t \in TradeIdx :
          /\ trade_log[t].dd >= 0
          /\ trade_log[t].dd <= max_dd
          /\ trade_log[t].equity_after <= peak
    /\ max_dd = 0 \/ \E t \in TradeIdx : trade_log[t].dd = max_dd

\* C10 case: the peak advanced, a drawdown was recorded, and a later closure
\* with a smaller sample left max_drawdown where it was
C10_Witness ==
    /\ peak > INITIAL_CAPITAL
    /\ max_dd > 0
    /\ \E a \in TradeIdx : \E b \in TradeIdx :
          /\ a < b
          /\ trade_log[a].dd = max_dd
          /\ trade_log[b].dd < max_dd

\* the program is at a decision point: a candle that reaches the lookback
\* of line 448 (no break at 436-443, at least 60 candles of history)
AtDecisionPoint ==
    /\ pc = "decide"
    /\ ~MaxTradesReached(day_trades)
    /\ ~DailyLossBreached(daily_pnl, equity)
    /\ GIdx >= 60

\* the ADX of the 61-bar window ending at candle g_idx (0-based)
AdxAt(g_idx) == calculate_adx(Lookback(g_idx), 14)

\* no trade is opened and nothing is counted or booked by this step
NoTradeNoCount ==
    /\ pos' = NoPosition
    /\ pc' # "walk"
    /\ UNCHANGED <<counters, account, daily, trade_log>>

\* C11: a decision point whose 61-bar lookback window has ADX < 15 (CHOPPY)
\* opens no trade and increments no skip counter, whatever the trend, the
\* confirmation and the quality of the window are.
C11_ChoppyNeverTrades ==
    [][(AtDecisionPoint /\ AdxAt(GIdx) < 150000) => NoTradeNoCount]_vars

\* C11 case: the candle just decided was a CHOPPY decision point at which the
\* gates after the regime would have counted a confirmation skip
C11_Witness ==
    /\ pc = "decide" /\ i >= 1 /\ GIdx - 1 >= 60
    /\ day_trades = 0 /\ entry_confirmation_skips = 0
    /\ AdxAt(GIdx - 1) < 150000
    /\ GateOfSignal(Lookback(GIdx - 1), DayCandle(i - 1), RegimeOfAdx(250000),
                    detect_trend_and_pullback(Lookback(GIdx - 1)), equity)
         = "confirmation"

\* the bars of the day the exit walk has processed so far (0-based)
WalkedBars ==
    IF pc = "walk" THEN (i + 1)..(j - 1)
    ELSE IF pc = "close" THEN (i + 1)..j
    ELSE {}

\* some walked bar reached one risk unit of profit, intrabar
ReachedOneR ==
    \E k \in WalkedBars :
        IF pos.trend = "UP" THEN DayCandle(k).high >= pos.entry_price + pos.risk
        ELSE DayCandle(k).low <= pos.entry_price - pos.risk

\* C12: from the first walked bar whose high reaches entry_price +
\* risk_per_unit (low reaches entry_price - risk_per_unit for a short) on,
\* be_triggered is set and stays set and the stop in force is at least
\* entry_price * 1.001 for a long, at most entry_price * 0.999 for a short.
C12_BreakEvenLock ==
    (PositionOpen /\ ReachedOneR) =>
        /\ pos.be_triggered
        /\ IF pos.trend = "UP"
           THEN pos.trailing_stop >= pos.entry_price + pos.entry_price \div 1000
           ELSE pos.trailing_stop <= pos.entry_price - pos.entry_price \div 1000

\* C12 case: a long whose stop, first set below the entry, stands exactly at
\* the break-even level one bar after the lock fired
C12_Witness ==
    /\ pc = "walk" /\ pos.trend = "UP" /\ ReachedOneR
    /\ pos.stop < pos.entry_price
    /\ pos.trailing_stop = pos.entry_price + pos.entry_price \div 1000

\* C13: during an exit walk the stop only moves favourably (never down for
\* a long, never up for a short) and the values fixed at entry (trail
\* distance = ATR * TRAILING_ATR_MULT, risk_per_unit, break-even level, entry
\* price, quantity) never change.
C13_StopOnlyFavourable ==
    [][(PositionOpen /\ pos'.trend # "NONE") =>
        /\ IF pos.trend = "UP" THEN pos'.trailing_stop >= pos.trailing_stop
           ELSE pos'.trailing_stop <= pos.trailing_stop
        /\ pos'.trend = pos.trend
        /\ pos'.trail_dist = pos.trail_dist
        /\ pos'.trail_dist = pos.atr * TRAILING_ATR_MULT
        /\ pos'.risk = pos.risk
        /\ pos'.be_level = pos.be_level
        /\ pos'.entry_price = pos.entry_price
        /\ pos'.qty = pos.qty]_vars

\* C13 case: a long in its walk, the ratchet active, just after a bar whose
\* high was lower than the high before it: the stop stays above what that
\* bar alone would give
C13_Witness ==
    /\ pc = "walk" /\ pos.trend = "UP" /\ j - 1 >= i + 2
    /\ DayCandle(j - 1).high < DayCandle(j - 2).high
    /\ DayCandle(j - 1).high > pos.entry_price + pos.trail_dist
    /\ pos.trailing_stop > DayCandle(j - 1).high - pos.trail_dist
    /\ pos.trailing_stop > pos.stop

\* the last candle of day d (0-based) of the series
LastCandleOf(d) == all_candles[day_indices[d + 1][2]]

\* C14: a trade whose exit walk hit no stop is closed at the close of the
\* last bar of its entry day.
C14_ForcedExitAtDayClose ==
    /\ (pc = "close" /\ ~pos.stopped) => pos.exit_price = LastCandleOf(day_idx).close
    /\ \A t \in TradeIdx :
         ~trade_log[t].stopped =>
             trade_log[t].exit_price = LastCandleOf(trade_log[t].day).close

\* C14 case: a closed trade that was never stopped and whose walk window
\* ended before the last bar of the day
C14_Witness ==
    \E t \in TradeIdx :
        /\ ~trade_log[t].stopped
        /\ trade_log[t].entry_bar + 40
             < day_indices[trade_log[t].day + 1][2] - day_indices[trade_log[t].day + 1][1]
        /\ trade_log[t].exit_price = LastCandleOf(trade_log[t].day).close

\* the number of candles of day d and its candle k (both 0-based)
BarsOf(d) == day_indices[d + 1][2] - day_indices[d + 1][1]
CandleOf(d, k) == all_candles[day_indices[d + 1][1] + k + 1]

\* the candle c trades through the stop the closed trade r ended with
HitsFinalStop(r, c) ==
    IF r.trend = "UP" THEN c.low <= r.trailing_stop ELSE c.high >= r.trailing_stop

\* C15: the exit walk tests the 40 bars that follow the entry bar (or all the
\* remaining bars of the day if fewer) and never a bar of another day: a
\* trade exits inside its day, a stopped trade on one of those 40 bars, and a
\* trade that was not stopped has no stop hit on the 40th bar after its entry.
C15_WalkTestsFortyBars ==
    \A t \in TradeIdx :
        LET r == trade_log[t] IN
        /\ r.exit_bar < BarsOf(r.day)
        /\ r.stopped => r.exit_bar \in (r.entry_bar + 1)..(r.entry_bar + 40)
        /\ (~r.stopped /\ r.entry_bar + 40 < BarsOf(r.day)) =>
               ~HitsFinalStop(r, CandleOf(r.day, r.entry_bar + 40))

\* the quality threshold the spec gives for an ADX value, in thousandths
\* (0.4 TRENDING, 0.6 NORMAL; CHOPPY does not trade at all)
QualityThreshold(adx) ==
    IF adx >= 250000 THEN 400 ELSE IF adx >= 150000 THEN 600 ELSE 0

\* the window w of ADX adx with decision candle c passes the gates that
\* precede the quality gate: regime, trend and pullback, body direction,
\* breakout confirmation
PassesEarlierGates(adx, w, c) ==
    LET tp == detect_trend_and_pullback(w) IN
    /\ adx >= 150000
    /\ tp.trend # "NEUTRAL" /\ tp.is_pullback
    /\ IF tp.trend = "UP" THEN c.close > c.open ELSE c.close < c.open
    /\ has_entry_confirmation(w, tp.trend).confirmed

\* a trade is opened by this step only with a score at or above the
\* threshold of a tradable regime
OpensOnlyAbove(adx, score) ==
    pc' = "walk" => (adx >= 150000 /\ score >= QualityThreshold(adx))

\* a score below the threshold is counted once and opens no trade
BelowIsCounted(adx, score) ==
    score < QualityThreshold(adx) =>
        /\ pc' # "walk" /\ pos' = NoPosition
        /\ quality_score_skips' = quality_score_skips + 1

\* the quality gate at a decision point on the window w with ADX adx
QualityGateStep(adx, score, w, c) ==
    /\ OpensOnlyAbove(adx, score)
    /\ PassesEarlierGates(adx, w, c) => BelowIsCounted(adx, score)

\* C16: every opened trade passed the quality gate of the regime of its own
\* lookback window: its score is >= 0.4 when the window is TRENDING and
\* >= 0.6 when it is NORMAL; a decision point whose score is computed (the
\* regime, trend/pullback, body and confirmation gates passed, line 478) and
\* is below the threshold opens no trade and increments quality_score_skips
\* by exactly 1.
C16_QualityGate ==
    [][AtDecisionPoint =>
        QualityGateStep(AdxAt(GIdx), calculate_trade_quality(Lookback(GIdx)),
                        Lookback(GIdx), DayCandle(i))]_vars

\* C16 case: the candle just decided was a NORMAL window that passed the
\* earlier gates with a score between the two thresholds, and was counted
C16_Witness ==
    /\ pc = "decide" /\ i >= 1 /\ GIdx - 1 >= 60
    /\ quality_score_skips >= 1 /\ day_trades = 0
    /\ AdxAt(GIdx - 1) >= 150000 /\ AdxAt(GIdx - 1) < 250000
    /\ PassesEarlierGates(AdxAt(GIdx - 1), Lookback(GIdx - 1), DayCandle(i - 1))
    /\ calculate_trade_quality(Lookback(GIdx - 1)) >= 400
    /\ calculate_trade_quality(Lookback(GIdx - 1)) < 600

\* the three components calculate_trade_quality computes for a window of at
\* least EMA_SLOW + 5 candles, in thousandths
QualityComponents(candles) ==
    LET closes == Closes(candles)
        n      == Len(candles)
    IN  [trend_strength |-> TrendStrength(calculate_ema(closes, EMA_FAST),
                                          calculate_ema(closes, EMA_SLOW)),
         pullback_score |-> PullbackScore(MaxHigh(candles, Max2(1, n - 9), n),
                                          MinLow(candles, Max2(1, n - 9), n),
                                          closes[n]),
         volume_score   |-> VolumeScore(candles)]

InUnit(x) == x >= 0 /\ x <= 1000

\* the score of a window and its components are in [0, 1]
QualityInUnit(candles) ==
    /\ InUnit(calculate_trade_quality(candles))
    /\ Len(candles) >= EMA_SLOW + 5 =>
         /\ InUnit(QualityComponents(candles).trend_strength)
         /\ InUnit(QualityComponents(candles).pullback_score)
         /\ InUnit(QualityComponents(candles).volume_score)

\* the last n candles of the window ending at the candle the program is at
Recent(n) == SubSeq(all_candles, GIdx + 2 - n, GIdx + 1)

\* C17: calculate_trade_quality returns a score in [0, 1], and each of its
\* three components is in [0, 1], for every window: here the 61-bar lookback
\* of every decision candle and its last 30, 29 and 19 bars.
C17_QualityInUnitInterval ==
    (pc = "decide" /\ GIdx >= 60) =>
        /\ QualityInUnit(Recent(61))
        /\ QualityInUnit(Recent(30))
        /\ QualityInUnit(Recent(29))
        /\ QualityInUnit(Recent(19))

\* C17 case: a window whose last candle has more than twice the average
\* volume of the 19 before it, so that the cap of the volume score is what
\* keeps it at 1, and whose other components are inside (0, 1)
C17_Witness ==
    /\ pc = "decide" /\ GIdx >= 60
    /\ all_candles[GIdx + 1].volume * 19
         > 2 * SumFrom([k \in 1..(GIdx + 1) |-> all_candles[k].volume], GIdx - 18, GIdx)
    /\ QualityComponents(Recent(61)).volume_score = 1000
    /\ QualityComponents(Recent(61)).pullback_score > 0
    /\ QualityComponents(Recent(61)).pullback_score < 1000
    /\ calculate_trade_quality(Recent(61)) > 0
    /\ calculate_trade_quality(Recent(61)) < 1000

\* the range between the swing high and the swing low of the last 10 bars
\* of the window ending at candle g_idx (0-based)
SwingRange(g_idx) ==
    MaxHigh(all_candles, g_idx - 8, g_idx + 1) - MinLow(all_candles, g_idx - 8, g_idx + 1)

\* C18: a lookback window with zero range between its 10-bar swing high and
\* swing low has pullback_score 0, and no trade is opened at its decision
\* point (a position being simulated was opened on a window with range).
C18_FlatWindowBlocksEntry ==
    /\ (pc = "decide" /\ GIdx >= 60 /\ SwingRange(GIdx) = 0) =>
           QualityComponents(Lookback(GIdx)).pullback_score = 0
    /\ PositionOpen => SwingRange(GIdx) > 0

\* C18 case: the candle just decided closed a window without range, and the
\* day has opened no trade
C18_Witness ==
    /\ pc = "decide" /\ i >= 1 /\ GIdx - 1 >= 60
    /\ SwingRange(GIdx - 1) = 0
    /\ QualityComponents(Lookback(GIdx - 1)).pullback_score = 0
    /\ day_trades = 0 /\ ~PositionOpen

\* min_first_hour_atr of the regime of an ADX value, in thousandths
\* (0.3 TRENDING, 0.25 NORMAL, 0.0 CHOPPY: lines 167, 178, 189)
RegimeFraction(adx) ==
    IF adx >= 250000 THEN 300 ELSE IF adx >= 150000 THEN 250 ELSE 0

\* the candles of day d (0-based) of the series
CandlesOf(d) == SubSeq(all_candles, day_indices[d + 1][1] + 1, day_indices[d + 1][2])

\* the first-hour range of day d is below the fraction of the regime at the
\* day's first candle times the day's ATR
BelowRegimeFraction(d) ==
    LET day == CandlesOf(d)
        first_hour == SubSeq(day, 1, Min2(4, Len(day)))
        day_range == MaxHigh(first_hour, 1, Len(first_hour))
                       - MinLow(first_hour, 1, Len(first_hour))
        atr == calculate_atr(day, 14)
    IN  atr > 0 /\ day_range * 1000 < RegimeFraction(AdxAt(day_indices[d + 1][1])) * atr

\* C19: a day that reaches the volatility check is skipped (no decision
\* point evaluated, volatility_skips + 1) exactly when its first-hour range
\* is below min_first_hour_atr of the current regime (0.3 TRENDING, 0.25
\* NORMAL) times the day ATR.  Stated for the day last read, with at least 60
\* candles of history before it.
C19_VolatilitySkipByRegime ==
    (Len(day_log) > 0 /\ (pc = "day" \/ (pc = "decide" /\ i = 0))) =>
        LET last == day_log[Len(day_log)] IN
        (last.outcome \in {"volatility", "open"} /\ day_indices[last.day + 1][1] >= 60) =>
            (last.outcome = "volatility" <=> BelowRegimeFraction(last.day))

\* the entry conditions of a long on the window w with decision candle c;
\* the EMAs are in hundredths of a price unit
LongSetup(w, c, fast_ema, slow_ema) ==
    /\ fast_ema > slow_ema
    /\ slow_ema < c.close * 100 /\ c.close * 100 < fast_ema
    /\ c.close > c.open
    /\ c.close > w[Len(w) - 1].high

\* the mirrored conditions of a short
ShortSetup(w, c, fast_ema, slow_ema) ==
    /\ fast_ema < slow_ema
    /\ slow_ema > c.close * 100 /\ c.close * 100 > fast_ema
    /\ c.close < c.open
    /\ c.close < w[Len(w) - 1].low

\* the trade opened by this step, if any, has its setup on the window w
OpensOnSetup(w, c, fast_ema, slow_ema) ==
    pc' = "walk" =>
        IF pos'.trend = "UP" THEN LongSetup(w, c, fast_ema, slow_ema)
        ELSE pos'.trend = "DOWN" /\ ShortSetup(w, c, fast_ema, slow_ema)

\* the first failing gate alone is counted: regime, trend/pullback and body
\* count nothing, a failed confirmation counts once and leaves the quality
\* counter alone, a failed quality gate counts once after a confirmation
FirstFailureOnly(adx, tp, w, c, score) ==
    LET regime_ok  == adx >= 150000
        signal_ok  == tp.trend # "NEUTRAL" /\ tp.is_pullback
        body_ok    == IF tp.trend = "UP" THEN c.close > c.open ELSE c.close < c.open
        confirmed  == has_entry_confirmation(w, tp.trend).confirmed
        quality_ok == score >= QualityThreshold(adx)
    IN  /\ ~(regime_ok /\ signal_ok /\ body_ok) => NoTradeNoCount
        /\ (regime_ok /\ signal_ok /\ body_ok /\ ~confirmed) =>
              /\ entry_confirmation_skips' = entry_confirmation_skips + 1
              /\ quality_score_skips' = quality_score_skips
              /\ pc' # "walk"
        /\ (regime_ok /\ signal_ok /\ body_ok /\ confirmed /\ ~quality_ok) =>
              /\ quality_score_skips' = quality_score_skips + 1
              /\ entry_confirmation_skips' = entry_confirmation_skips
              /\ pc' # "walk"

\* C20: every long is opened on a decision bar and window with fastEMA >
\* slowEMA, slowEMA < close < fastEMA, close > open and close > the high of
\* the preceding bar, every short on the mirrored conditions; the gates are
\* evaluated in the order regime, trend/pullback, body direction, breakout
\* confirmation, quality, and the first failure ends the decision point.
C20_EntrySetupAndGateOrder ==
    [][AtDecisionPoint =>
        /\ OpensOnSetup(Lookback(GIdx), DayCandle(i),
                        calculate_ema(Closes(Lookback(GIdx)), EMA_FAST),
                        calculate_ema(Closes(Lookback(GIdx)), EMA_SLOW))
        /\ FirstFailureOnly(AdxAt(GIdx),
                            detect_trend_and_pullback(Lookback(GIdx)),
                            Lookback(GIdx), DayCandle(i),
                            calculate_trade_quality(Lookback(GIdx)))]_vars

\* the closed trade r was opened on the setup of its direction
OpenedOnSetup(r) ==
    LET w == Lookback(r.g_idx)
        fast_ema == calculate_ema(Closes(w), EMA_FAST)
        slow_ema == calculate_ema(Closes(w), EMA_SLOW)
    IN  IF r.trend = "UP" THEN LongSetup(w, w[Len(w)], fast_ema, slow_ema)
        ELSE ShortSetup(w, w[Len(w)], fast_ema, slow_ema)

\* C20 case: a short and a long have both been opened and closed, each on
\* the setup of its direction
C20_Witness ==
    /\ \E t \in TradeIdx : trade_log[t].trend = "DOWN" /\ OpenedOnSetup(trade_log[t])
    /\ \E t \in TradeIdx : trade_log[t].trend = "UP" /\ OpenedOnSetup(trade_log[t])

\* the position r was sized as lines 494-504 size it: risk_per_unit is the
\* distance from the entry price to the initial stop and is positive, the
\* quantity is floor(equity * RISK_PER_TRADE / risk_per_unit) and at least 1
Sized(r) ==
    /\ r.risk = Abs(r.entry_price - r.stop)
    /\ r.risk > 0
    /\ r.qty = (r.equity_at_entry * RISK_PER_TRADE) \div (1000 * r.risk)
    /\ r.qty >= 1
    /\ r.qty * r.risk * 1000 <= r.equity_at_entry * RISK_PER_TRADE

\* the window w of ADX adx with decision candle c passes every gate up to
\* and including the quality gate
IsCandidate(adx, w, c) ==
    /\ PassesEarlierGates(adx, w, c)
    /\ calculate_trade_quality(w) >= QualityThreshold(adx)

\* the entry computed for a candidate on the window w at equity eq has no
\* positive risk or no positive quantity
Unsizable(w, c, eq) ==
    LET plan == EntryPlan(w, c, detect_trend_and_pullback(w).trend, eq)
    IN  plan.risk <= 0 \/ (eq * RISK_PER_TRADE) \div (1000 * plan.risk) <= 0

\* the candidate on the window w is skipped when it cannot be sized
SkipsUnsizable(adx, w, c) ==
    (IsCandidate(adx, w, c) /\ Unsizable(w, c, equity)) => NoTradeNoCount

\* C21: every opened trade has risk_per_unit = |entry_price - initial_stop|
\* > 0 and quantity = floor(equity * RISK_PER_TRADE / risk_per_unit) >= 1,
\* hence quantity * risk_per_unit <= equity * RISK_PER_TRADE; a candidate
\* with risk_per_unit <= 0 or quantity <= 0 is skipped, leaving equity, the
\* trade counts and all counters unchanged.
C21_PositionSizing ==
    [][/\ pos'.trend # "NONE" => Sized(pos')
       /\ AtDecisionPoint =>
             SkipsUnsizable(AdxAt(GIdx), Lookback(GIdx), DayCandle(i))]_vars

\* C21 case: the first trade of the run was opened on the third day, after
\* a candidate of the second day had been skipped for a quantity of 0
C21_Witness ==
    /\ Len(trade_log) >= 1
    /\ trade_log[1].day = 2 /\ Sized(trade_log[1])
    /\ \E k \in 0..(BarsOf(1) - 2) :
          /\ IsCandidate(AdxAt(day_indices[2][1] + k),
                         Lookback(day_indices[2][1] + k), CandleOf(1, k))
          /\ Unsizable(Lookback(day_indices[2][1] + k), CandleOf(1, k),
                       trade_log[1].equity_at_entry)

\* every indicator the gates consumed for a position entered on the window
\* ending at candle g_idx of day d was available: the day ATR of the
\* volatility gate, the ADX of the regime gate, the EMAs of the trend gate
\* and the ATR of the stop are not the sentinel 0
IndicatorsAvailable(d, g_idx, atr) ==
    /\ calculate_atr(CandlesOf(d), 14) # 0
    /\ AdxAt(g_idx) # 0
    /\ calculate_ema(Closes(Lookback(g_idx)), EMA_FAST) # 0
    /\ calculate_ema(Closes(Lookback(g_idx)), EMA_SLOW) # 0
    /\ atr # 0

\* C22: a gate that receives an unavailable indicator (the sentinel 0 of
\* calculate_ema, calculate_atr or calculate_adx) means do-not-trade: every
\* trade, open or closed, was opened on a day and a decision point whose
\* gates all received available indicators, the day-level volatility gate
\* included.
C22_UnavailableMeansNoTrade ==
    /\ PositionOpen => IndicatorsAvailable(day_idx, GIdx, pos.atr)
    /\ \A t \in TradeIdx :
          IndicatorsAvailable(trade_log[t].day, trade_log[t].g_idx, trade_log[t].atr)

\* C23: for a symbol whose series is missing or empty (no data file, or a
\* file with zero trading days) the call emits no performance record: it ends
\* by returning None, never by returning the record.
C23_EmptySeriesNoRecord ==
    (pc \in {"none", "done"} /\ Len(day_indices) = 0) => pc = "none"

\* the configuration r is the one the regime table gives for the ADX value
\* adx (in ten-thousandths of a point; scores and fractions in thousandths):
\* exactly one of the three rows applies
RegimeAsTabled(r, adx) ==
    /\ r.adx = adx
    /\ r.regime \in {"TRENDING", "NORMAL", "CHOPPY"}
    /\ r.regime = "TRENDING" <=> adx >= 250000
    /\ r.regime = "NORMAL" <=> (adx >= 150000 /\ adx < 250000)
    /\ r.regime = "CHOPPY" <=> adx < 150000
    /\ r.regime = "TRENDING" =>
          /\ r.should_trade
          /\ r.min_trade_score = 400 /\ r.min_ema_slope = 5
          /\ r.min_first_hour_atr = 300
    /\ r.regime = "NORMAL" =>
          /\ r.should_trade
          /\ r.min_trade_score = 600 /\ r.min_ema_slope = 2
          /\ r.min_first_hour_atr = 250
    /\ r.regime = "CHOPPY" => ~r.should_trade

\* the regime name detect_regime gives the window ending at candle g_idx
RegimeAt(g_idx) == detect_regime(Lookback(g_idx)).regime

\* C24: detect_regime is a function of its window that maps ADX >= 25 to
\* TRENDING (should_trade, min quality 0.4, min slope 0.5%, min first-hour
\* fraction 0.3), 15 <= ADX < 25 to NORMAL (should_trade, 0.6, 0.2%, 0.25) and
\* ADX < 15 to CHOPPY (should_trade false); exactly one case applies.  Stated
\* for the 61-bar window of every decision candle.
C24_RegimeTable ==
    (pc = "decide" /\ GIdx >= 60) =>
        RegimeAsTabled(detect_regime(Lookback(GIdx)), AdxAt(GIdx))

\* C24 case: the window of the decision candle is NORMAL, and the series
\* has had a CHOPPY window and a TRENDING window before it
C24_Witness ==
    /\ pc = "decide" /\ GIdx >= 60
    /\ RegimeAt(GIdx) = "NORMAL"
    /\ \E g \in 60..(GIdx - 1) : RegimeAt(g) = "CHOPPY"
    /\ \E g \in 60..(GIdx - 1) : RegimeAt(g) = "TRENDING"

ConstantPrices(prices) == \A k \in 1..Len(prices) : prices[k] = prices[1]

\* C26: calculate_ema(prices, period) on a constant series of value p with
\* at least period prices returns exactly p, and it returns the sentinel 0
\* when there are fewer than period prices.
C26_EmaOfConstantSeries ==
    (probe.fn = "ema" /\ probe.out # << >> /\ ConstantPrices(probe.prices)) =>
        probe.out[1] = IF Len(probe.prices) < probe.period THEN FZero
                       ELSE Decimal(probe.prices[1])

\* the true ranges of the candles are all the double r
ConstantRange(true_ranges, r) ==
    \A k \in 1..Len(true_ranges) : true_ranges[k] = r

\* what calculate_atr is to return on candles whose true ranges are all r:
\* 0 below two candles, else r (the mean of any number of them is r too)
AtrOfConstantRange(candles, true_ranges) ==
    IF Len(candles) < 2 THEN FZero ELSE true_ranges[1]

\* C27: calculate_atr(candles, period) on candles whose true range is the
\* constant r returns exactly r when there are at least period + 1 candles,
\* the mean of the true ranges (r again) when there are fewer than period of
\* them, and 0 with fewer than 2 candles.
C27_AtrOfConstantRange ==
    (/\ probe.fn = "atr" /\ probe.out # << >>
     /\ ConstantRange(TrueRangesDouble(ParsedCandles(probe.candles)),
                      TrueRangeDouble(ParsedCandles(probe.candles), 2))) =>
        probe.out[1] = AtrOfConstantRange(probe.candles,
                                          TrueRangesDouble(ParsedCandles(probe.candles)))

\* the global index of the bar trade t was entered at, and of its exit bar
EntryIndex(t) == trade_log[t].g_idx
ExitIndex(t) == trade_log[t].g_idx - trade_log[t].entry_bar + trade_log[t].exit_bar

RECURSIVE NetClosedBy(_, _)
\* the net pnl of the trades among the first n whose exit bar is at or
\* before the bar g
NetClosedBy(n, g) ==
    IF n = 0 THEN 0
    ELSE (IF ExitIndex(n) <= g THEN trade_log[n].net ELSE 0) + NetClosedBy(n - 1, g)

\* C28: closures are applied to equity in trade-completion order: the exit
\* bars of the successive trades applied are non-decreasing in global bar
\* index, and the equity a trade is sized on is INITIAL_CAPITAL plus the net
\* pnl of exactly the trades already closed at its entry bar.
C28_ClosuresInCompletionOrder ==
    /\ \A a \in TradeIdx : \A b \in TradeIdx :
          a < b => ExitIndex(a) <= ExitIndex(b)
    /\ \A t \in TradeIdx :
          trade_log[t].equity_at_entry =
              INITIAL_CAPITAL + NetClosedBy(Len(trade_log), EntryIndex(t))

\* the step closes a trade
ClosesTrade == Len(trade_log') = Len(trade_log) + 1

\* the step starts a day on which the kill-switch drawdown is computed
\* (line 410)
ChecksDrawdown ==
    /\ Len(day_log') = Len(day_log) + 1
    /\ day_log'[Len(day_log')].outcome \in {"triggered", "volatility", "open"}

\* C29: rolling_peak is advanced on trade closure together with peak:
\* immediately after every trade closure rolling_peak >= equity, and the
\* drawdown the kill-switch computes at a day start is measured from the
\* highest equity reached so far.
C29_RollingPeakFollowsClosures ==
    [][/\ ClosesTrade => rolling_peak' >= equity'
       /\ ChecksDrawdown => rolling_peak >= peak]_vars

\* the step starts a day of at least 20 bars that the kill switch skips:
\* the switch is active and the day is inside the pause (404-406), or the
\* rolling drawdown has reached KILL_SWITCH_DD (410-417)
SkippedByKillSwitch ==
    /\ pc = "day"
    /\ Len(day_indices') = Len(day_indices) + 1
    /\ Len(all_candles') - Len(all_candles) >= 20
    /\ \/ kill_switch_active /\ day_idx < kill_switch_end_day
       \/ KillSwitchHit(rolling_peak, equity)

\* C30: a day skipped by the kill switch (the triggering day or a pause
\* day) leaves equity, peak, rolling_peak, max_dd, the trade and win counts,
\* the pnl sums, daily_returns, volatility_skips and every other skip counter
\* unchanged, opens no position and walks no candle; only the kill-switch
\* state and kill_switch_triggers may change (by one trigger at most).
C30_KillSwitchSkipFrame ==
    [][SkippedByKillSwitch =>
          /\ UNCHANGED <<account, rolling_peak, counters, pos, trade_log>>
          /\ pc' = "day" /\ day_idx' = day_idx + 1
          /\ kill_switch_triggers' \in {kill_switch_triggers, kill_switch_triggers + 1}]_vars

\* C30 case: after a day with trades the switch triggered on a day and the
\* pause days after it were skipped, all of them days whose candles would
\* have been traded, and the account is as the last trade left it
C30_Witness ==
    /\ pc = "day" /\ trades >= 1 /\ equity < rolling_peak
    /\ kill_switch_active /\ kill_switch_triggers = 1
    /\ \E k \in DayIdx : \E m \in DayIdx :
          /\ day_log[k].outcome = "triggered" /\ day_log[m].outcome = "paused"
          /\ day_log[k].bars >= 20 /\ day_log[m].bars >= 20
          /\ day_log[m].day > day_log[k].day
          /\ day_log[m].equity = equity /\ day_log[m].rolling_peak = rolling_peak
    /\ equity = trade_log[Len(trade_log)].equity_after

\* the gross pnl per unit of the closed trade r is not negative
NoGrossLoss(r) ==
    IF r.trend = "UP" THEN r.exit_price >= r.entry_price
    ELSE r.exit_price <= r.entry_price

\* C31: every trade on which the break-even lock triggered closes with a
\* non-negative gross pnl (exit price >= entry price for a long, <= entry
\* price for a short), whichever way the trade exits.
C31_BreakEvenNoLoss ==
    \A t \in TradeIdx : trade_log[t].be_triggered => NoGrossLoss(trade_log[t])

\* C32: calculate_ema of validate_swing.py, validate_base_comparison.py and
\* compare_strategies_unified.py returns the same value as calculate_ema of
\* validate_upgraded.py on every input: the mean of the first period values
\* smoothed over the remaining ones with multiplier 2 / (period + 1).
C32_EmaImplementationsAgree ==
    (probe.fn = "ema_swing" /\ probe.out # << >>) =>
        probe.out[1] = calculate_ema_double(ParsedPrices(probe.prices), probe.period,
                                            probe.compensated)

\* the closed trades with a net pnl above 0
Winners == {t \in TradeIdx : trade_log[t].net > 0}

\* C33: in every reachable state gross_profit - gross_loss equals the
\* accumulated net pnl, gross_profit >= 0, gross_loss >= 0 and 0 <= wins <=
\* trades; the wins are the trades with a net pnl above 0, so a trade with a
\* net pnl of exactly 0 is counted as a non-win.
C33_ProfitLossSplit ==
    /\ gross_profit - gross_loss = pnl
    /\ gross_profit >= 0 /\ gross_loss >= 0
    /\ 0 <= wins /\ wins <= trades
    /\ trades = Len(trade_log)
    /\ wins = Cardinality(Winners)

\* C33 case: a trade was closed at a net pnl of exactly 0, another at a
\* loss and another at a gain
C33_Witness ==
    /\ \E t \in TradeIdx : trade_log[t].net = 0
    /\ \E t \in TradeIdx : trade_log[t].net < 0
    /\ \E t \in TradeIdx : trade_log[t].net > 0
    /\ wins < trades /\ gross_profit > 0 /\ gross_loss > 0

\* values min_ema_slope could take, in thousandths: none, and one no
\* window reaches
SlopeValues == {0, 100}

\* the gate outcome at the decision point is the same whatever
\* min_ema_slope the regime carries
SlopeIrrelevant(lookback, last_candle, regime_info) ==
    \A s \in SlopeValues :
        GateOfRegime(lookback, last_candle, [regime_info EXCEPT !.min_ema_slope = s],
                     equity)
          = GateOfRegime(lookback, last_candle, regime_info, equity)

PeaksOrdered == INITIAL_CAPITAL <= rolling_peak /\ rolling_peak <= peak /\ peak > 0

\* a step inside one call of process_symbol_with_filters (the step from
\* "start" is the next call beginning again from lines 370-373)
SameCall == pc # "start"

\* C35: in every reachable state INITIAL_CAPITAL <= rolling_peak <= peak,
\* peak > 0 (the drawdown division of line 562 never divides by zero), and
\* within a call neither peak ever decreases.
C35_PeaksOrderedAndMonotone ==
    /\ []PeaksOrdered
    /\ [][SameCall => (peak' >= peak /\ rolling_peak' >= rolling_peak)]_vars

\* C35 case: a winning day has raised the rolling peak at the next day's
\* start, and a trade closed since has raised the peak above it
C35_Witness ==
    /\ INITIAL_CAPITAL < rolling_peak /\ rolling_peak < peak
    /\ trades >= 2 /\ equity = peak

\* the loss bound of a stopped trade r: the exit is within one slippage of
\* the initial stop, and the gross loss within quantity * (risk + slip)
StopLossBounded(r) ==
    IF r.trend = "UP"
    THEN /\ r.exit_price >= r.stop - r.slip
         /\ (r.entry_price - r.exit_price) * r.qty <= r.qty * (r.risk + r.slip)
    ELSE /\ r.exit_price <= r.stop + r.slip
         /\ (r.exit_price - r.entry_price) * r.qty <= r.qty * (r.risk + r.slip)

\* C36: a trade closed by a stop hit exits no worse than the initial stop
\* plus one slippage amount, so its gross loss is at most
\* quantity * (risk_per_unit + slip).
C36_StopLossBounded ==
    \A t \in TradeIdx : trade_log[t].stopped => StopLossBounded(trade_log[t])

\* C36 case: a trade stopped at its initial stop on a bar that opened beyond
\* it, closed at a gross loss
C36_Witness ==
    \E t \in TradeIdx :
        /\ trade_log[t].stopped
        /\ trade_log[t].trailing_stop = trade_log[t].stop
        /\ IF trade_log[t].trend = "UP"
           THEN /\ trade_log[t].bar_open < trade_log[t].stop
                /\ trade_log[t].exit_price < trade_log[t].entry_price
           ELSE /\ trade_log[t].bar_open > trade_log[t].stop
                /\ trade_log[t].exit_price > trade_log[t].entry_price

\* the stop of position p after the break-even check and the ratchet of
\* bar c, both taken from the bar's favourable extreme (519-530, 535-536)
RaisedStop(p, c) ==
    IF p.trend = "UP"
    THEN Max2(Max2(p.trailing_stop,
                   IF ~p.be_triggered /\ c.high - p.entry_price >= p.risk
                   THEN p.be_level ELSE p.trailing_stop),
              IF c.high > p.entry_price + p.trail_dist
              THEN c.high - p.trail_dist ELSE p.trailing_stop)
    ELSE Min2(Min2(p.trailing_stop,
                   IF ~p.be_triggered /\ p.entry_price - c.low >= p.risk
                   THEN p.be_level ELSE p.trailing_stop),
              IF c.low < p.entry_price - p.trail_dist
              THEN c.low + p.trail_dist ELSE p.trailing_stop)

\* the adverse extreme of bar c reaches the stop s
AdverseHit(p, c, s) == IF p.trend = "UP" THEN c.low <= s ELSE c.high >= s

\* the walk closes the trade on bar j at the raised stop
ClosedOnBar(raised) ==
    /\ pc' = "close" /\ pos'.stopped /\ pos'.exit_bar = j
    /\ pos'.trailing_stop = raised
    /\ pos'.exit_price = IF pos.trend = "UP"
                         THEN Max2(raised, DayCandle(j).open) - pos.slip
                         ELSE Min2(raised, DayCandle(j).open) + pos.slip

\* C37: within a walked bar the break-even check and the trailing ratchet
\* come before the stop test, so a trade is closed on the very bar whose
\* favourable extreme raised the stop whenever that bar's adverse extreme
\* reaches the raised stop; otherwise the walk goes on with the raised stop.
C37_RatchetBeforeStopTest ==
    [][pc = "walk" =>
         IF AdverseHit(pos, DayCandle(j), RaisedStop(pos, DayCandle(j)))
         THEN ClosedOnBar(RaisedStop(pos, DayCandle(j)))
         ELSE ~pos'.stopped /\ pos'.trailing_stop = RaisedStop(pos, DayCandle(j))]_vars

\* C37 case: a long was stopped at a stop above its initial one on a bar
\* whose low was above the initial stop, and no bar walked before had a
\* high that could lock or ratchet: the closing bar's own high raised it
C37_Witness ==
    \E t \in TradeIdx :
        /\ trade_log[t].trend = "UP" /\ trade_log[t].stopped
        /\ trade_log[t].trailing_stop > trade_log[t].stop
        /\ CandleOf(trade_log[t].day, trade_log[t].exit_bar).low > trade_log[t].stop
        /\ CandleOf(trade_log[t].day, trade_log[t].exit_bar).low
             <= trade_log[t].trailing_stop
        /\ \A b \in (trade_log[t].entry_bar + 1)..(trade_log[t].exit_bar - 1) :
              /\ CandleOf(trade_log[t].day, b).high
                   < trade_log[t].entry_price + trade_log[t].risk
              /\ CandleOf(trade_log[t].day, b).high
                   <= trade_log[t].entry_price + trade_log[t].trail_dist

\* the 10-bar swing high and low of a window, as calculate_trade_quality
\* takes them (272-274)
SwingHighOf(candles) == MaxHigh(candles, Max2(1, Len(candles) - 9), Len(candles))
SwingLowOf(candles) == MinLow(candles, Max2(1, Len(candles) - 9), Len(candles))

\* for a close inside a positive swing range the depth is at least 0.5, the
\* score is 2 * (1 - depth), and the branch depth * 2 means depth = 0.5
DepthAtLeastHalf(swing_high, swing_low, current) ==
    (swing_high - swing_low > 0 /\ swing_low <= current /\ current <= swing_high) =>
        /\ PullbackDepth(swing_high, swing_low, current) >= 500
        /\ PullbackScore(swing_high, swing_low, current)
             = 2 * (1000 - PullbackDepth(swing_high, swing_low, current))
        /\ PullbackDepth(swing_high, swing_low, current) <= 500
             => PullbackDepth(swing_high, swing_low, current) = 500

OpenedAndClosedInDay(r) ==
    /\ r.g_idx >= 60
    /\ r.g_idx = day_indices[r.day + 1][1] + r.entry_bar
    /\ r.entry_bar < BarsOf(r.day) - 1
    /\ r.entry_bar < r.exit_bar
    /\ r.exit_bar <= BarsOf(r.day) - 1

\* C39: every trade is opened at a bar with global index >= 60 that is not
\* the last bar of its day, its exit walk tests at least one bar, and its
\* exit bar is strictly after its entry bar and in the same trading day.
C39_TradesWithinTheirDay ==
    /\ pc \in {"walk", "close"} => (GIdx >= 60 /\ i < DayLen - 1)
    /\ pc = "walk" => (i + 1 <= j /\ j < WalkEnd)
    /\ pc = "close" => (i + 1 <= j /\ j < WalkEnd /\ i < pos.exit_bar
                        /\ pos.exit_bar <= DayLen - 1)
    /\ \A t \in TradeIdx : OpenedAndClosedInDay(trade_log[t])

\* C39 case: a trade opened on the last bar but one of its day, whose walk
\* tested the last bar only
C39_Witness ==
    \E t \in TradeIdx :
        /\ trade_log[t].entry_bar = BarsOf(trade_log[t].day) - 2
        /\ trade_log[t].exit_bar = BarsOf(trade_log[t].day) - 1
        /\ trade_log[t].g_idx >= 60

\* the closed swing trades, and the bars on which a position was open
SwingIdx == 1..Len(trade_log)
SwingNets == [t \in SwingIdx |-> trade_log[t].net]

\* C40: in process_symbol_swing at most one position is open at a time
\* (a trade is opened only after the one before it was closed, on a later
\* bar), entry and exit never happen on the same bar, only long positions are
\* opened, pnl equals equity - INITIAL_CAPITAL, and a position still open at
\* the last bar is never closed: trades and pnl count the closed trades only.
C40_SwingOnePositionLongOnly ==
    /\ \A t \in SwingIdx :
         /\ trade_log[t].entry_bar < trade_log[t].exit_bar
         /\ trade_log[t].trend = "UP"
         /\ t > 1 => trade_log[t - 1].exit_bar < trade_log[t].entry_bar
    /\ pos.in_position =>
         /\ pos.trend = "UP" /\ pos.qty > 0
         /\ pc = "swing_bar" => pos.entry_bar < i
         /\ \A t \in SwingIdx : trade_log[t].exit_bar < pos.entry_bar
    /\ pnl = equity - INITIAL_CAPITAL
    /\ trades = Len(trade_log)
    /\ pnl = SumFrom(SwingNets, 1, Len(trade_log))

\* C40 case: the record is returned with one closed trade counted and a
\* second position, opened after it, still open at the last bar
C40_Witness ==
    /\ pc = "done" /\ pos.in_position
    /\ trades = 1 /\ pnl # 0
    /\ pos.entry_bar > trade_log[1].exit_bar

====
